---- MODULE Spec2Model ----
(***************************************************************************)
(* A model of fast-fec-rust's buffered multi-stream writer                 *)
(* (src/src/writer/mod.rs).                                                *)
(*                                                                         *)
(* Strings and byte slices are sequences of byte values (a Rust String is  *)
(* its UTF-8 bytes, and str::len counts bytes).  A stream key is the pair  *)
(* <<filename, extension>>.  The writer's fields are the variables of the  *)
(* module; the code's methods are operators over a record holding those    *)
(* fields together with the outside world the sinks write to.              *)
(***************************************************************************)
EXTENDS Integers, Sequences, FiniteSets, TLC

(***************************************************************************)
(* Bounds of the model.                                                    *)
(***************************************************************************)
\* The largest buffer capacity a run is constructed with (0..MaxCap).
MaxCap == 3
\* The number of write operations (write_string, write_char, write_double,
\* write_csv_record) one run performs when nothing fails.
MaxWrites == 2
\* The number of write operations of a run whose sinks and file system may
\* fail.
MaxFaultyWrites == 1
\* The number of operations of one run in which a sink or the file system
\* fails.
MaxFaults == 1
\* The fields of a CSV record and the bytes they hold together.
MaxFields == 2
MaxChars == 3
\* The bytes of a raw line.
MaxLineLen == 3
\* The lines of an input file after its header line.
MaxLines == 2

(***************************************************************************)
(* Byte strings.                                                           *)
(***************************************************************************)
NoBytes == << >>
\* ',' '"' '\n' '\r' '.' '/' '-' '0' as bytes
Comma == 44
Quote == 34
LF == 10
CR == 13
Dot == 46
Slash == 47
Hyphen == 45
Digit0 == 48

\* "hi", " there!" (the texts of tests/writer_tests.rs), "a/b", "a-b", ".csv"
Txt_hi == <<104, 105>>
Txt_there == <<32, 116, 104, 101, 114, 101, 33>>
Name_slash == <<97, 47, 98>>
Name_hyphen == <<97, 45, 98>>
Txt_out == <<111, 117, 116>>
Txt_id == <<49>>

\* pub const CSV_EXTENSION: &str = ".csv";
CSV_EXTENSION == <<46, 99, 115, 118>>

RECURSIVE Concat(_)
\* The concatenation of a sequence of byte strings.
Concat(ss) == IF ss = << >> THEN << >> ELSE Head(ss) \o Concat(Tail(ss))

\* &s[..n] and &s[n..] of slice::split_at(n)
Take(s, n) == SubSeq(s, 1, n)
Drop_(s, n) == SubSeq(s, n + 1, Len(s))

IsPrefix(p, s) == Len(p) <= Len(s) /\ Take(s, Len(p)) = p

RECURSIVE trim_start_matches(_, _)
\* str::trim_start_matches(c): the string without its leading c's
trim_start_matches(s, c) ==
    IF s # << >> /\ Head(s) = c THEN trim_start_matches(Tail(s), c) ELSE s

\* str::replace(from, to) for single characters
replace(s, from, to) == [i \in 1..Len(s) |-> IF s[i] = from THEN to ELSE s[i]]

(***************************************************************************)
(* BufferFile (writer/mod.rs 34-78).                                       *)
(***************************************************************************)
\* BufferFile::new
BufferFile_new(capacity) ==
    [buffer |-> NoBytes, position |-> 0, capacity |-> capacity]

\* Faulty variants of BufferFile::write_bytes, which the properties of the
\* buffer must tell from the code's.  This one takes data that does not fit
\* whole, without splitting it.
BufferFile_write_bytes_nosplit(bf, data) ==
    [bf |-> [bf EXCEPT !.buffer = @ \o data, !.position = @ + Len(data)],
     leftover |-> NoBytes]

\* This one forgets to advance position when the data fits.
BufferFile_write_bytes_nopos(bf, data) ==
    LET space_left == bf.capacity - bf.position IN
    IF Len(data) <= space_left
    THEN [bf |-> [bf EXCEPT !.buffer = @ \o data], leftover |-> NoBytes]
    ELSE [bf |-> [bf EXCEPT !.buffer = @ \o Take(data, space_left),
                            !.position = @ + space_left],
          leftover |-> Drop_(data, space_left)]

\* This one takes one byte more than there is room for.
BufferFile_write_bytes_over(bf, data) ==
    LET space_left == bf.capacity - bf.position IN
    IF Len(data) <= space_left
    THEN [bf |-> [bf EXCEPT !.buffer = @ \o data,
                            !.position = @ + Len(data)],
          leftover |-> NoBytes]
    ELSE [bf |-> [bf EXCEPT !.buffer = @ \o Take(data, space_left + 1),
                            !.position = @ + space_left + 1],
          leftover |-> Drop_(data, space_left + 1)]

\* BufferFile::write_bytes: the buffer after the write, and the leftover.
\* space_left is a usize: capacity - position must not be negative.
BufferFile_write_bytes(bf, data) ==
    LET space_left == bf.capacity - bf.position IN
    IF Len(data) <= space_left
    THEN [bf |-> [bf EXCEPT !.buffer = @ \o data,
                            !.position = @ + Len(data)],
          leftover |-> NoBytes]
    ELSE LET first == Take(data, space_left)
             second == Drop_(data, space_left) IN
         [bf |-> [bf EXCEPT !.buffer = @ \o first,
                            !.position = @ + Len(first)],
          leftover |-> second]

\* A faulty is_empty that looks at capacity where it should look at
\* position.
BufferFile_is_empty_capacity(bf) == bf.capacity = 0

\* A faulty is_empty that takes a buffer of one byte for an empty one.
BufferFile_is_empty_one(bf) == bf.position <= 1

\* BufferFile::is_empty
BufferFile_is_empty(bf) == bf.position = 0

\* BufferFile::clear
BufferFile_clear(bf) == [bf EXCEPT !.buffer = NoBytes, !.position = 0]

\* FileEntry::new
FileEntry_new(buffer_capacity, file) ==
    [buffer_file |-> BufferFile_new(buffer_capacity), file |-> file]

(***************************************************************************)
(* Option<T>: None is the empty sequence, Some(x) the sequence <<x>>.      *)
(***************************************************************************)
None == << >>
Some(x) == <<x>>
Unwrap(o) == o[1]

EmptyMap == [k \in {} |-> k]
\* HashMap::insert
Insert(m, k, v) == [x \in DOMAIN m \cup {k} |-> IF x = k THEN v ELSE m[x]]

(***************************************************************************)
(* The path of a stream's file (get_file_entry, writer/mod.rs 222-227).    *)
(***************************************************************************)
\* The run's output_directory and filing_id: "out" and "1".
output_directory == Txt_out
filing_id == Txt_id

\* The index of the last '.' of a file name that is not its first byte
\* (0 if there is none): what Path::file_stem cuts at.
LastDot(s) ==
    LET dots == {i \in 2..Len(s) : s[i] = Dot} IN
    IF dots = {} THEN 0 ELSE CHOOSE i \in dots : \A j \in dots : j <= i

\* Path::with_extension on the last component: the stem, then '.' and the
\* extension unless the extension is empty.
with_extension(file_name, extension) ==
    LET stem == IF LastDot(file_name) = 0 THEN file_name
                ELSE Take(file_name, LastDot(file_name) - 1) IN
    IF extension = << >> THEN stem ELSE stem \o <<Dot>> \o extension

\* dir_path.join(normalized_filename).with_extension(..), as the bytes of
\* the path "<output_directory>/<filing_id>/<file name>".
FullPath(filename, extension) ==
    LET normalized_filename == replace(filename, Slash, Hyphen) IN
    output_directory \o <<Slash>> \o filing_id \o <<Slash>>
        \o with_extension(normalized_filename,
                          trim_start_matches(extension, Dot))

(***************************************************************************)
(* The state.                                                              *)
(***************************************************************************)
VARIABLES
    \* WriterContext's configuration, fixed by WriterContext::new
    write_to_disk,        \* whether files are written
    buffer_size,          \* the capacity given to each new stream buffer
    custom_write_fn,      \* whether a byte-sink callback is registered
    custom_line_fn,       \* whether a line-sink callback is registered
    fallible,             \* whether the sinks and the file system of this
                          \* run can fail
    \* WriterContext's mutable fields
    open_files,           \* key -> FileEntry
    last_file_key,        \* Option<key>
    local_mode,
    local_buffer,
    local_buffer_pos,
    custom_line_buffer,
    \* the outside world
    sink_calls,           \* key -> the chunks the byte-sink received for it
    file_calls,           \* key -> the chunks written through its handle
    disk,                 \* path -> the file's bytes
    line_out,             \* Option: the line-sink's latest invocation
    next_fd,              \* the number of files opened so far
    \* the run
    pc,                   \* "live", "hung" (a call that never returns),
                          \* "dropped", "panicked"
    \* history, kept to state the properties
    written,              \* key -> all bytes passed to write_bytes for it
    accepted,             \* key -> the bytes of the writes that returned Ok
    nwrites,              \* the number of write operations so far
    nfaults,              \* the number of operations that returned Err
    flushed,              \* whether flush_all has been called
    local_written,        \* text written in local mode since its start
    line_written,         \* with a line-sink registered: the text passed
                          \* to write_string/write_char/write_double
                          \* outside local mode since the previous
                          \* end_line call
    line_accepted,        \* the same, counting only calls that returned Ok
    touched,              \* with a line-sink and sinks that never fail:
                          \* write, the name of the stream of the latest
                          \* write outside local mode; flush, the name of
                          \* the stream a flush_all since that write
                          \* visited last (both Options)
    \* the callers of the conversions (fec/parser.rs)
    csv_fields,           \* the field list given to write_csv_record
    csv_parsed,           \* Option: what parse_csv_line made of the output
    raw_line,             \* the raw bytes of a line given to decode_line
    decoded_line,         \* Option: what decode_line returned
    fec                   \* a run of parse_fec: the input not yet read,
                          \* where the run is, FecContext's fields it
                          \* changes, and, as history, the header line's
                          \* separator flag and how each line was split

config == <<write_to_disk, buffer_size, custom_write_fn, custom_line_fn,
           fallible>>
ctx == <<open_files, last_file_key, local_mode, local_buffer,
         local_buffer_pos, custom_line_buffer>>
world == <<sink_calls, file_calls, disk, line_out, next_fd>>
history == <<written, accepted, nwrites, nfaults, flushed, local_written,
             line_written, line_accepted, touched>>
conv == <<csv_fields, csv_parsed, raw_line, decoded_line, fec>>
vars == <<config, ctx, world, pc, history, conv>>

(***************************************************************************)
(* A method runs on a record of the writer's fields and the world.  io     *)
(* counts the fallible calls made so far by the running operation (a file  *)
(* open, a callback, a handle clone, a file write) and failAt names the    *)
(* one that fails (0: none does).  err is "" until the operation fails,    *)
(* and cause is the first error, which later ones wrap; hung marks a loop  *)
(* that never ends.                                                        *)
(***************************************************************************)
NoErr == ""

Self(failAt) ==
    [open_files |-> open_files, last_file_key |-> last_file_key,
     local_mode |-> local_mode, local_buffer |-> local_buffer,
     local_buffer_pos |-> local_buffer_pos,
     custom_line_buffer |-> custom_line_buffer,
     sink_calls |-> sink_calls, file_calls |-> file_calls, disk |-> disk,
     line_out |-> line_out, next_fd |-> next_fd,
     io |-> 0, failAt |-> failAt, err |-> NoErr, cause |-> NoErr,
     hung |-> FALSE,
     n_sink |-> 0, n_file |-> 0, n_line |-> 0, n_open |-> 0, n_sync |-> 0,
     entry |-> None, value |-> NoBytes]

\* The calls that may fail in an operation that makes n fallible calls.
FailPoints(n) == IF fallible /\ nfaults < MaxFaults THEN 0..n ELSE {0}

\* The next fallible call: whether it fails, and the record after it.
CallFails(s) == s.io + 1 = s.failAt
Called(s) == [s EXCEPT !.io = @ + 1]
Raise(s, e) ==
    [s EXCEPT !.err = e, !.cause = IF s.cause = NoErr THEN e ELSE s.cause]

\* A faulty log that puts the latest chunk first.
Logged_front(log, key, chunk) ==
    [k \in DOMAIN log \cup {key} |->
        IF k = key
        THEN <<chunk>> \o (IF key \in DOMAIN log THEN log[key] ELSE << >>)
        ELSE log[k]]

\* Appending a chunk to a per-key log.
Logged(log, key, chunk) ==
    Insert(log, key, (IF key \in DOMAIN log THEN log[key] ELSE << >>)
                        \o <<chunk>>)

(***************************************************************************)
(* WriterContext::get_file_entry (writer/mod.rs 192-248).  The entry it    *)
(* returns is named by s.entry.  (A value computed once and used several   *)
(* times is passed to an operator of its own rather than bound by LET.)    *)
(***************************************************************************)
\* Lines 228-234: the file at fullpath opened for append, created empty
\* when it does not exist.  create_dir_all and open are one fallible call.
OpenAt(s, fullpath) ==
    IF CallFails(s)
    THEN Raise(Called(s), "open")
    ELSE [Called(s) EXCEPT
            !.disk = IF fullpath \in DOMAIN s.disk THEN s.disk
                     ELSE Insert(s.disk, fullpath, NoBytes),
            !.next_fd = @ + 1,
            !.n_open = @ + 1,
            !.value = Some([path |-> fullpath, fd |-> s.next_fd + 1])]

\* A faulty variant of lines 221-237 that opens the file whatever
\* write_to_disk says.
OpenFile_always(s, filename, extension) ==
    OpenAt(s, FullPath(filename, extension))

\* Lines 221-237: the file of a new entry, or None when write_to_disk is
\* off.
OpenFile(s, filename, extension) ==
    IF write_to_disk
    THEN OpenAt(s, FullPath(filename, extension))
    ELSE [s EXCEPT !.value = None]

\* Lines 239-247: the new entry inserted, unless the open failed.
InsertEntry(o, key) ==
    IF o.err # NoErr THEN o
    ELSE [o EXCEPT
            !.open_files = Insert(o.open_files, key,
                                  FileEntry_new(buffer_size, o.value)),
            !.last_file_key = Some(key),
            !.entry = Some(key),
            !.value = NoBytes]

\* A faulty fast path that compares the file names only.
IsLastFileKey_nameonly(s, filename, extension) ==
    /\ s.last_file_key # None
    /\ Unwrap(s.last_file_key)[1] = filename

\* Lines 197-207: the fast path through last_file_key.
IsLastFileKey(s, filename, extension) ==
    /\ s.last_file_key # None
    /\ Unwrap(s.last_file_key)[1] = filename
    /\ Unwrap(s.last_file_key)[2] = extension

\* A faulty get_file_entry whose map lookup forgets to update
\* last_file_key.
get_file_entry_stale(s, filename, extension) ==
    IF IsLastFileKey(s, filename, extension)
    THEN IF Unwrap(s.last_file_key) \in DOMAIN s.open_files
         THEN [s EXCEPT !.entry = s.last_file_key]
         ELSE Raise(s, "File entry not found in open_files!")
    ELSE IF <<filename, extension>> \in DOMAIN s.open_files
    THEN [s EXCEPT !.entry = Some(<<filename, extension>>)]
    ELSE InsertEntry(OpenFile(s, filename, extension),
                     <<filename, extension>>)

get_file_entry(s, filename, extension) ==
    IF IsLastFileKey(s, filename, extension)
    THEN IF Unwrap(s.last_file_key) \in DOMAIN s.open_files
         THEN [s EXCEPT !.entry = s.last_file_key]
         ELSE Raise(s, "File entry not found in open_files!")
    ELSE IF <<filename, extension>> \in DOMAIN s.open_files
    THEN [s EXCEPT !.last_file_key = Some(<<filename, extension>>),
                   !.entry = Some(<<filename, extension>>)]
    ELSE InsertEntry(OpenFile(s, filename, extension),
                     <<filename, extension>>)

(***************************************************************************)
(* WriterContext::flush_buffer (writer/mod.rs 251-286).                    *)
(***************************************************************************)
\* A faulty variant of lines 272-275 that hands the byte-sink the name of
\* another stream.
CallCustomWrite_othername(s, filename, extension, buffer) ==
    IF custom_write_fn
    THEN IF CallFails(s)
         THEN Raise([Called(s) EXCEPT !.n_sink = @ + 1], "custom_write_fn")
         ELSE [Called(s) EXCEPT
                 !.n_sink = @ + 1,
                 !.sink_calls = Logged(@, <<Name_hyphen, extension>>, buffer)]
    ELSE s

\* Lines 272-275: the byte-sink callback, if one is registered.
CallCustomWrite(s, filename, extension, buffer) ==
    IF custom_write_fn
    THEN IF CallFails(s)
         THEN Raise([Called(s) EXCEPT !.n_sink = @ + 1], "custom_write_fn")
         ELSE [Called(s) EXCEPT
                 !.n_sink = @ + 1,
                 !.sink_calls = Logged(@, <<filename, extension>>, buffer)]
    ELSE s

\* A faulty variant of lines 277-283 that never writes to the file.
WriteFile_skip(s, key, file, cloned, buffer) == s

\* Lines 277-283: the write through the cloned handle, if the entry has a
\* file.  cloned is FALSE when try_clone (line 267) failed.  The handle is
\* in append mode: the chunk goes to the end of the file at its path.
WriteFile(s, key, file, cloned, buffer) ==
    IF file = None THEN s
    ELSE IF ~cloned THEN Raise(s, "Failed to clone file handle")
    ELSE IF CallFails(s)
         THEN Raise([Called(s) EXCEPT !.n_file = @ + 1],
                    "Failed to write to file")
         ELSE [Called(s) EXCEPT
                 !.n_file = @ + 1,
                 !.file_calls = Logged(@, key, buffer),
                 !.disk[Unwrap(file).path] = @ \o buffer]

\* A faulty variant of lines 273-283 that goes on to the file when the
\* callback has failed.
AfterCustomWrite_goon(w, key, file, cloned, buffer) ==
    WriteFile(w, key, file, cloned, buffer)

\* Lines 273-283: the callback's error returns at once; else the file.
AfterCustomWrite(w, key, file, cloned, buffer) ==
    IF w.err # NoErr THEN w
    ELSE WriteFile(w, key, file, cloned, buffer)

\* Line 267: try_clone is called when the entry has a file; its result is
\* looked at only after the callback.
TryClone(s, file) == IF file = None THEN s ELSE Called(s)

\* A faulty variant of lines 260-283 that puts the chunk back into the
\* buffer when a sink has failed.
Deliver_restore(cleared, key, entry, filename, extension) ==
    IF AfterCustomWrite(
           CallCustomWrite(TryClone(cleared, entry.file), filename, extension,
                           entry.buffer_file.buffer),
           key, entry.file,
           entry.file = None \/ ~CallFails(cleared),
           entry.buffer_file.buffer).err # NoErr
    THEN [AfterCustomWrite(
              CallCustomWrite(TryClone(cleared, entry.file), filename,
                              extension, entry.buffer_file.buffer),
              key, entry.file,
              entry.file = None \/ ~CallFails(cleared),
              entry.buffer_file.buffer)
             EXCEPT !.open_files[key].buffer_file = entry.buffer_file]
    ELSE AfterCustomWrite(
             CallCustomWrite(TryClone(cleared, entry.file), filename,
                             extension, entry.buffer_file.buffer),
             key, entry.file,
             entry.file = None \/ ~CallFails(cleared),
             entry.buffer_file.buffer)

\* Lines 260-283 for the entry as it was before line 264 cleared it.
Deliver(cleared, key, entry, filename, extension) ==
    AfterCustomWrite(
        CallCustomWrite(TryClone(cleared, entry.file), filename, extension,
                        entry.buffer_file.buffer),
        key, entry.file,
        entry.file = None \/ ~CallFails(cleared),
        entry.buffer_file.buffer)

\* Lines 254-270 once get_file_entry has returned g.
FlushEntry(g, filename, extension) ==
    IF g.err # NoErr THEN g
    ELSE IF BufferFile_is_empty(g.open_files[Unwrap(g.entry)].buffer_file)
    THEN g
    ELSE Deliver([g EXCEPT !.open_files[Unwrap(g.entry)].buffer_file =
                               BufferFile_clear(@)],
                 Unwrap(g.entry), g.open_files[Unwrap(g.entry)],
                 filename, extension)

flush_buffer(s, filename, extension) ==
    FlushEntry(get_file_entry(s, filename, extension), filename, extension)

(***************************************************************************)
(* WriterContext::write_bytes (writer/mod.rs 289-305).                     *)
(***************************************************************************)
RECURSIVE write_bytes_loop(_, _, _, _)

\* Lines 296-302 after the flush: its error returns; a turn that left both
\* the writer and the overflow as they were repeats forever; else the loop
\* goes on with the leftover.
AfterFlush(s, f, filename, extension, overflow, leftover) ==
    IF f.err # NoErr THEN f
    ELSE IF leftover = overflow /\ f = s THEN [f EXCEPT !.hung = TRUE]
    ELSE write_bytes_loop(f, filename, extension, leftover)

\* A faulty variant of lines 294-302 that flushes as soon as the buffer is
\* full, without waiting for the next byte.
AfterAppend_eager(s, g, r, filename, extension, overflow) ==
    IF r.leftover = NoBytes /\ r.bf.position < r.bf.capacity
    THEN [g EXCEPT !.open_files[Unwrap(g.entry)].buffer_file = r.bf]
    ELSE AfterFlush(s,
             flush_buffer([g EXCEPT !.open_files[Unwrap(g.entry)].buffer_file
                                        = r.bf],
                          filename, extension),
             filename, extension, overflow, r.leftover)

\* Lines 294-302: r is what BufferFile::write_bytes returned.
AfterAppend(s, g, r, filename, extension, overflow) ==
    IF r.leftover = NoBytes
    THEN [g EXCEPT !.open_files[Unwrap(g.entry)].buffer_file = r.bf]
    ELSE AfterFlush(s,
             flush_buffer([g EXCEPT !.open_files[Unwrap(g.entry)].buffer_file
                                        = r.bf],
                          filename, extension),
             filename, extension, overflow, r.leftover)

\* Lines 292-295 once get_file_entry has returned g.
AppendTo(s, g, filename, extension, overflow) ==
    IF g.err # NoErr THEN g
    ELSE AfterAppend(s, g,
             BufferFile_write_bytes(
                 g.open_files[Unwrap(g.entry)].buffer_file, overflow),
             filename, extension, overflow)

\* One turn of the while loop of lines 291-303, then the rest of it.
write_bytes_loop(s, filename, extension, overflow) ==
    IF overflow = NoBytes THEN s
    ELSE AppendTo(s, get_file_entry(s, filename, extension),
                  filename, extension, overflow)

\* A faulty write_bytes that resolves the entry before it looks at data.
write_bytes_resolving(s, filename, extension, data) ==
    write_bytes_loop([get_file_entry(s, filename, extension)
                         EXCEPT !.entry = s.entry],
                     filename, extension, data)

write_bytes(s, filename, extension, data) ==
    write_bytes_loop(s, filename, extension, data)

(***************************************************************************)
(* The conversions of the write methods.                                   *)
(***************************************************************************)
\* char::encode_utf8: the UTF-8 bytes of a code point
encode_utf8(c) ==
    IF c < 128 THEN <<c>>
    ELSE IF c < 2048 THEN <<192 + (c \div 64), 128 + (c % 64)>>
    ELSE IF c < 65536
    THEN <<224 + (c \div 4096), 128 + ((c \div 64) % 64), 128 + (c % 64)>>
    ELSE <<240 + (c \div 262144), 128 + ((c \div 4096) % 64),
           128 + ((c \div 64) % 64), 128 + (c % 64)>>

RECURSIVE DecDigits(_)
\* The decimal digits of a natural number.
DecDigits(n) ==
    IF n < 10 THEN <<Digit0 + n>>
    ELSE DecDigits(n \div 10) \o <<Digit0 + (n % 10)>>

\* write!(&mut s, "{:.2}", value) (line 343).  A double is given by its
\* number of hundredths; the model draws values that a double holds
\* exactly, which print as themselves.
FormatDouble(hundredths) ==
    LET m == IF hundredths < 0 THEN -hundredths ELSE hundredths IN
    (IF hundredths < 0 THEN <<Hyphen>> ELSE << >>)
        \o DecDigits(m \div 100)
        \o <<Dot, Digit0 + ((m % 100) \div 10), Digit0 + (m % 10)>>

\* A faulty quoting rule that looks for the delimiter and the quote only.
NeedsQuotes_delimquote(field) ==
    \E i \in 1..Len(field) : field[i] \in {Comma, Quote}

\* csv::Writer with the default QuoteStyle::Necessary: a field is quoted
\* when it holds the delimiter, a quote, '\r' or '\n'.
NeedsQuotes(field) ==
    \E i \in 1..Len(field) : field[i] \in {Comma, Quote, CR, LF}

\* A faulty escaping that leaves every '"' single.
DoubleQuotes_single(field) == field

RECURSIVE DoubleQuotes(_)
\* Every '"' of the field doubled.
DoubleQuotes(field) ==
    IF field = << >> THEN << >>
    ELSE (IF Head(field) = Quote THEN <<Quote, Quote>> ELSE <<Head(field)>>)
             \o DoubleQuotes(Tail(field))

CsvField(field) ==
    IF NeedsQuotes(field) THEN <<Quote>> \o DoubleQuotes(field) \o <<Quote>>
    ELSE field

RECURSIVE CsvJoin(_)
CsvJoin(fields) ==
    IF fields = << >> THEN << >>
    ELSE IF Len(fields) = 1 THEN CsvField(fields[1])
    ELSE CsvField(fields[1]) \o <<Comma>> \o CsvJoin(Tail(fields))

\* wtr.write_record(fields); wtr.flush() (lines 377-384): the fields joined
\* by commas and ended by '\n'; a record that wrote no byte (no field, or
\* one empty field) is written as "".
CsvRecord(fields) ==
    LET row == CsvJoin(fields) IN
    (IF row = << >> THEN <<Quote, Quote>> ELSE row) \o <<LF>>

(***************************************************************************)
(* WriterContext's public methods.                                         *)
(***************************************************************************)
\* A faulty start_local_buffer_mode that keeps what was captured before.
start_local_buffer_mode_keep(s) == [s EXCEPT !.local_mode = TRUE]

\* start_local_buffer_mode (lines 159-163)
start_local_buffer_mode(s) ==
    [s EXCEPT !.local_mode = TRUE,
              !.local_buffer = NoBytes,
              !.local_buffer_pos = 0]

\* A faulty finish_local_buffer_mode that does not clear the capture.
finish_local_buffer_mode_keep(s) ==
    [s EXCEPT !.local_mode = FALSE, !.value = s.local_buffer]

\* finish_local_buffer_mode (lines 166-172); the content is s.value
finish_local_buffer_mode(s) ==
    [s EXCEPT !.local_mode = FALSE,
              !.value = s.local_buffer,
              !.local_buffer = NoBytes,
              !.local_buffer_pos = 0]

\* end_line (lines 176-189)
LastName(s) ==
    IF s.last_file_key = None THEN NoBytes ELSE Unwrap(s.last_file_key)[1]

\* Lines 177-186: the line-sink callback, if one is registered.
CallCustomLine(s, types) ==
    IF ~custom_line_fn THEN s
    ELSE IF CallFails(s)
    THEN Raise([Called(s) EXCEPT !.n_line = @ + 1], "custom_line_fn")
    ELSE [Called(s) EXCEPT
            !.n_line = @ + 1,
            !.line_out = Some([name |-> LastName(s),
                               line |-> s.custom_line_buffer,
                               types |-> types])]

\* A faulty variant of lines 185-188 that never clears the pending line.
AfterCustomLine_keep(c) == c

\* Lines 185-188: the callback's error returns at once; else the pending
\* line is cleared.
AfterCustomLine(c) ==
    IF c.err # NoErr THEN c
    ELSE [c EXCEPT !.custom_line_buffer = NoBytes]

end_line(s, types) == AfterCustomLine(CallCustomLine(s, types))

\* A faulty variant of lines 315-319 that never appends to the pending line.
AfterWriteBytes_nopush(w, bytes) == w

\* Lines 315-319 and 332-335 after write_bytes: its error returns at once;
\* else the text joins the pending line when a line-sink is registered.
AfterWriteBytes(w, bytes) ==
    IF w.err # NoErr \/ w.hung THEN w
    ELSE IF custom_line_fn
    THEN [w EXCEPT !.custom_line_buffer = @ \o bytes]
    ELSE w

\* A faulty write that, in local mode, also writes to the stream.
WriteText_leak(s, filename, extension, bytes) ==
    IF s.local_mode
    THEN AfterWriteBytes(
             write_bytes([s EXCEPT !.local_buffer = @ \o bytes,
                                   !.local_buffer_pos = @ + Len(bytes)],
                         filename, extension, bytes),
             bytes)
    ELSE AfterWriteBytes(write_bytes(s, filename, extension, bytes), bytes)

\* The body shared by write_string (lines 308-322) and write_char (lines
\* 328-337): bytes is the text, or the character's encoding.
WriteText(s, filename, extension, bytes) ==
    IF s.local_mode
    THEN [s EXCEPT !.local_buffer = @ \o bytes,
                   !.local_buffer_pos = @ + Len(bytes)]
    ELSE AfterWriteBytes(write_bytes(s, filename, extension, bytes), bytes)

write_string(s, filename, extension, str) ==
    WriteText(s, filename, extension, str)

write_char(s, filename, extension, c) ==
    WriteText(s, filename, extension, encode_utf8(c))

\* write_double (lines 341-346)
write_double(s, filename, extension, value) ==
    write_string(s, filename, extension, FormatDouble(value))

RECURSIVE flush_all_loop(_, _)

\* Lines 357-367: File::flush on the entry's file; it does nothing and
\* cannot fail.
SyncFile(f, key) ==
    IF key \in DOMAIN f.open_files /\ f.open_files[key].file # None
    THEN [f EXCEPT !.n_sync = @ + 1] ELSE f

\* Lines 354-368 after flush_buffer returned f for the first of keys.
AfterFlushBuffer(f, keys) ==
    IF f.err # NoErr THEN Raise(f, "Error flushing")
    ELSE flush_all_loop(SyncFile(f, Head(keys)), Tail(keys))

\* flush_all's loop (lines 353-368) over the keys in the order the map
\* yields them.
flush_all_loop(s, keys) ==
    IF keys = << >> THEN s
    ELSE AfterFlushBuffer(flush_buffer(s, Head(keys)[1], Head(keys)[2]),
                          keys)

\* flush_all (lines 349-370); keys is open_files.keys() collected
flush_all(s, keys) == flush_all_loop(s, keys)

\* A faulty variant of lines 386-395 that treats the record as
\* write_string treats its text.
WriteRecordBytes_line(s, filename, extension, buffer) ==
    WriteText(s, filename, trim_start_matches(extension, Dot), buffer)

\* Lines 386-395: buffer is the serialized record.
WriteRecordBytes(s, filename, extension, buffer) ==
    IF s.local_mode
    THEN [s EXCEPT !.local_buffer = @ \o buffer,
                   !.local_buffer_pos = @ + Len(buffer)]
    ELSE write_bytes(s, filename, trim_start_matches(extension, Dot),
                     buffer)

\* write_csv_record (lines 376-397)
write_csv_record(s, filename, fields) ==
    WriteRecordBytes(s, filename, CSV_EXTENSION, CsvRecord(fields))

(***************************************************************************)
(* The inputs the operations are called with.                              *)
(***************************************************************************)
\* The calls of a run, as argument tuples: names "a/b" and "a-b", the
\* extension ".csv", the texts "hi" and " there!" of tests/writer_tests.rs.
\* write_string(filename, extension, s)
StringWrites ==
    {<<Name_slash, CSV_EXTENSION, Txt_hi>>,
     <<Name_slash, CSV_EXTENSION, Txt_there>>,
     <<Name_hyphen, CSV_EXTENSION, Txt_hi>>}
\* write_string in the runs with failing sinks
FaultyStringWrites == {<<Name_slash, CSV_EXTENSION, Txt_there>>}
\* write_char(filename, extension, '\n')
CharWrites == {<<Name_slash, CSV_EXTENSION, LF>>}
\* write_char in the runs with failing sinks
FaultyCharWrites == {<<Name_hyphen, CSV_EXTENSION, LF>>}
\* write_double(filename, extension, 1.5)
DoubleWrites == {<<Name_hyphen, CSV_EXTENSION, 150>>}
\* write_csv_record(filename, ["a,b", "c"])
RecordWrites == {<<Name_slash, << <<97, Comma, 98>>, <<99>> >> >>}
\* end_line's types argument
Types == {NoBytes}

\* The orders in which a map can yield the keys of S.
Orders(S) ==
    {p \in [1..Cardinality(S) -> S] :
        \A i, j \in 1..Cardinality(S) : p[i] = p[j] => i = j}

(***************************************************************************)
(* The operations as steps of a run.                                       *)
(***************************************************************************)
\* The writer and the world become what the method left.
CommitCtx(s) ==
    /\ open_files' = s.open_files
    /\ last_file_key' = s.last_file_key
    /\ local_mode' = s.local_mode
    /\ local_buffer' = s.local_buffer
    /\ local_buffer_pos' = s.local_buffer_pos
    /\ custom_line_buffer' = s.custom_line_buffer
    /\ sink_calls' = s.sink_calls
    /\ file_calls' = s.file_calls
    /\ disk' = s.disk
    /\ line_out' = s.line_out
    /\ next_fd' = s.next_fd
    /\ nfaults' = IF s.err # NoErr THEN nfaults + 1 ELSE nfaults

\* The same for a call made from outside a run of parse_fec.
Commit(s) == CommitCtx(s) /\ UNCHANGED <<config, conv>>

Ok(s) == s.err = NoErr /\ ~s.hung

\* A run performs another write while it is below its bound.
MayWrite == nwrites < (IF fallible THEN MaxFaultyWrites ELSE MaxWrites)

\* The caller goes on once the call returns; a call that never returns
\* leaves it waiting.
Resume(s) == pc' = IF s.hung THEN "hung" ELSE "live"

\* The runs in which the history of touched streams is kept.
TracksTouched == custom_line_fn /\ ~fallible

\* The history of a write of bytes to key: line says whether the text
\* counts for the pending line (write_string, write_char, write_double).
NoteWrite(s, key, bytes, line) ==
    /\ nwrites' = nwrites + 1
    /\ written' = IF local_mode THEN written
                  ELSE Insert(written, key,
                              (IF key \in DOMAIN written THEN written[key]
                               ELSE NoBytes) \o bytes)
    /\ accepted' = IF local_mode \/ ~Ok(s) THEN accepted
                   ELSE Insert(accepted, key,
                               (IF key \in DOMAIN accepted THEN accepted[key]
                                ELSE NoBytes) \o bytes)
    /\ local_written' = IF local_mode THEN local_written \o bytes
                        ELSE local_written
    /\ line_written' = IF custom_line_fn /\ ~local_mode /\ line
                       THEN line_written \o bytes ELSE line_written
    /\ line_accepted' = IF custom_line_fn /\ ~local_mode /\ line /\ Ok(s)
                        THEN line_accepted \o bytes ELSE line_accepted
    /\ touched' = IF TracksTouched /\ ~local_mode
                  THEN [write |-> Some(key[1]), flush |-> None]
                  ELSE touched
    /\ UNCHANGED flushed

WriteString(filename, extension, str) ==
    /\ pc = "live" /\ MayWrite
    /\ \E failAt \in FailPoints(write_string(Self(0), filename, extension, str).io) :
         LET s == write_string(Self(failAt), filename, extension, str) IN
         /\ Commit(s)
         /\ Resume(s)
         /\ NoteWrite(s, <<filename, extension>>, str, TRUE)

WriteChar(filename, extension, c) ==
    /\ pc = "live" /\ MayWrite
    /\ \E failAt \in FailPoints(write_char(Self(0), filename, extension, c).io) :
         LET s == write_char(Self(failAt), filename, extension, c) IN
         /\ Commit(s)
         /\ Resume(s)
         /\ NoteWrite(s, <<filename, extension>>, encode_utf8(c), TRUE)

WriteDouble(filename, extension, value) ==
    /\ pc = "live" /\ MayWrite
    /\ \E failAt \in FailPoints(write_double(Self(0), filename, extension, value).io) :
         LET s == write_double(Self(failAt), filename, extension, value) IN
         /\ Commit(s)
         /\ Resume(s)
         /\ NoteWrite(s, <<filename, extension>>, FormatDouble(value), TRUE)

WriteCsvRecord(filename, fields) ==
    /\ pc = "live" /\ MayWrite
    /\ \E failAt \in FailPoints(write_csv_record(Self(0), filename, fields).io) :
         LET s == write_csv_record(Self(failAt), filename, fields) IN
         /\ Commit(s)
         /\ Resume(s)
         /\ NoteWrite(s, <<filename, trim_start_matches(CSV_EXTENSION, Dot)>>,
                      CsvRecord(fields), FALSE)

FlushAll ==
    /\ pc = "live"
    /\ \E keys \in Orders(DOMAIN open_files) :
       \E failAt \in FailPoints(flush_all(Self(0), keys).io) :
         LET s == flush_all(Self(failAt), keys) IN
         /\ Commit(s)
         /\ Resume(s)
         /\ flushed' = TRUE
         /\ touched' = IF TracksTouched /\ keys # << >>
                       THEN [touched EXCEPT
                               !.flush = Some(keys[Len(keys)][1])]
                       ELSE touched
         /\ UNCHANGED <<written, accepted, nwrites, local_written, line_written,
                        line_accepted>>

EndLine(types) ==
    /\ pc = "live"
    /\ \E failAt \in FailPoints(end_line(Self(0), types).io) :
         LET s == end_line(Self(failAt), types) IN
         /\ Commit(s)
         /\ Resume(s)
         /\ line_written' = NoBytes
         /\ line_accepted' = IF Ok(s) THEN NoBytes ELSE line_accepted
         /\ UNCHANGED <<written, accepted, nwrites, flushed, local_written,
                        touched>>

StartLocalBufferMode ==
    /\ pc = "live"
    /\ Commit(start_local_buffer_mode(Self(0)))
    /\ pc' = "live"
    /\ local_written' = NoBytes
    /\ UNCHANGED <<written, accepted, nwrites, flushed, line_written,
                   line_accepted, touched>>

FinishLocalBufferMode ==
    /\ pc = "live"
    /\ Commit(finish_local_buffer_mode(Self(0)))
    /\ pc' = "live"
    /\ local_written' = NoBytes
    /\ UNCHANGED <<written, accepted, nwrites, flushed, line_written,
                   line_accepted, touched>>

\* impl Drop for WriterContext (lines 400-409): the final flush_all; when it
\* fails, a build with debug_assertions panics and any other build logs.
DropWriter(debug_assertions) ==
    /\ pc = "live"
    /\ \E keys \in Orders(DOMAIN open_files) :
       \E failAt \in FailPoints(flush_all(Self(0), keys).io) :
         LET s == flush_all(Self(failAt), keys) IN
         /\ Commit(s)
         /\ pc' = IF s.err # NoErr /\ debug_assertions THEN "panicked"
                  ELSE "dropped"
         /\ flushed' = TRUE
         /\ UNCHANGED <<written, accepted, nwrites, local_written, line_written,
                        line_accepted, touched>>

(***************************************************************************)
(* The specification.                                                      *)
(***************************************************************************)
\* WriterContext::new (lines 134-156), and the world before the run.
Construct ==
    /\ write_to_disk \in BOOLEAN
    /\ buffer_size \in 0..MaxCap
    /\ custom_write_fn \in BOOLEAN
    /\ custom_line_fn \in BOOLEAN
    /\ open_files = EmptyMap
    /\ last_file_key = None
    /\ local_mode = FALSE
    /\ local_buffer = NoBytes
    /\ local_buffer_pos = 0
    /\ custom_line_buffer = NoBytes
    /\ sink_calls = EmptyMap
    /\ file_calls = EmptyMap
    /\ disk = EmptyMap
    /\ line_out = None
    /\ next_fd = 0
    /\ pc = "live"
    /\ written = EmptyMap
    /\ accepted = EmptyMap
    /\ nwrites = 0
    /\ nfaults = 0
    /\ flushed = FALSE
    /\ local_written = NoBytes
    /\ line_written = NoBytes
    /\ line_accepted = NoBytes
    /\ touched = [write |-> None, flush |-> None]

\* A run of parse_fec at the place at with input left to read, its
\* context as FecContext::new builds it (fec/context.rs 37-57); read is the
\* lines read so far and records the field lists handed to
\* write_csv_record, in call order.
FecRun(at, input) ==
    [input |-> input, at |-> at, use_ascii28 |-> FALSE, version |-> None,
     version_length |-> 0, header_flag |-> None, splits |-> << >>,
     read |-> << >>, records |-> << >>]

\* No conversion is under way.
NoConversion ==
    /\ csv_fields = << >> /\ csv_parsed = None
    /\ raw_line = << >> /\ decoded_line = None
    /\ fec = FecRun("idle", << >>)

\* Runs whose sinks and file system never fail: writes, local capture,
\* flush_all and teardown.
Init == Construct /\ fallible = FALSE /\ NoConversion

Next ==
    \/ \E a \in StringWrites : WriteString(a[1], a[2], a[3])
    \/ \E a \in CharWrites : WriteChar(a[1], a[2], a[3])
    \/ \E a \in DoubleWrites : WriteDouble(a[1], a[2], a[3])
    \/ \E a \in RecordWrites : WriteCsvRecord(a[1], a[2])
    \/ FlushAll
    \/ StartLocalBufferMode
    \/ FinishLocalBufferMode
    \/ \E debug_assertions \in BOOLEAN : DropWriter(debug_assertions)

Spec == Init /\ [][Next]_vars

\* Runs in which any call of a sink or of the file system may fail, with
\* every operation of the writer, on fewer inputs.
InitFaulty == Construct /\ fallible = TRUE /\ NoConversion

NextFaulty ==
    \/ \E a \in FaultyStringWrites : WriteString(a[1], a[2], a[3])
    \/ \E a \in FaultyCharWrites : WriteChar(a[1], a[2], a[3])
    \/ FlushAll
    \/ \E types \in Types : EndLine(types)
    \/ StartLocalBufferMode
    \/ FinishLocalBufferMode
    \/ \E debug_assertions \in BOOLEAN : DropWriter(debug_assertions)

SpecFaulty == InitFaulty /\ [][NextFaulty]_vars

\* Runs with a line-sink and sinks that never fail: writes to two streams,
\* end_line, flush_all, local capture and teardown.
InitLines ==
    Construct /\ fallible = FALSE /\ custom_line_fn /\ NoConversion

NextLines ==
    \/ \E a \in FaultyStringWrites : WriteString(a[1], a[2], a[3])
    \/ \E a \in FaultyCharWrites : WriteChar(a[1], a[2], a[3])
    \/ FlushAll
    \/ \E types \in Types : EndLine(types)
    \/ StartLocalBufferMode
    \/ FinishLocalBufferMode
    \/ \E debug_assertions \in BOOLEAN : DropWriter(debug_assertions)

SpecLines == InitLines /\ [][NextLines]_vars

(***************************************************************************)
(* What a property observes of a state, and of a call made in it.          *)
(***************************************************************************)
\* Every call made so far has returned.
Returned == pc # "hung"

\* The bytes the buffer of a stream holds; none when it has no entry.
BufferOf(files, key) ==
    IF key \in DOMAIN files THEN files[key].buffer_file.buffer ELSE NoBytes

\* The chunks a sink has received for a stream, and their concatenation.
Chunks(log, key) == IF key \in DOMAIN log THEN log[key] ELSE << >>
Delivered(log, key) == Concat(Chunks(log, key))

\* The chunks a call added to a log.
NewChunks(after, before, key) ==
    SubSeq(Chunks(after, key), Len(Chunks(before, key)) + 1,
           Len(Chunks(after, key)))

\* The outcomes of the write calls a caller can make in this state when no
\* sink fails.
WriteResults ==
    {write_string(Self(0), a[1], a[2], a[3]) : a \in StringWrites}
    \cup {write_char(Self(0), a[1], a[2], a[3]) : a \in CharWrites}
    \cup {write_double(Self(0), a[1], a[2], a[3]) : a \in DoubleWrites}
    \cup {write_csv_record(Self(0), a[1], a[2]) : a \in RecordWrites}

\* The outcomes of flush_all in this state when no sink fails, one for each
\* order in which the map yields its keys.
FlushResults == {flush_all(Self(0), keys) : keys \in Orders(DOMAIN open_files)}

\* The streams the run has written to.
Streams == DOMAIN written \cup DOMAIN open_files

\* A call left the sinks and the files as they were.
NothingDelivered(s, t) ==
    /\ t.sink_calls = s.sink_calls
    /\ t.file_calls = s.file_calls
    /\ t.disk = s.disk

(***************************************************************************)
(* Buffering and delivery.                                                 *)
(***************************************************************************)
\* C1: in a run whose sinks never fail, after any sequence of writes and
\* flush_all calls, for every stream the chunks delivered so far to the
\* byte-sink, concatenated in order of delivery and followed by the bytes in
\* the stream's buffer, are exactly the bytes written to the stream in call
\* order: the delivered bytes are a prefix of the written ones.
C1_DeliveredThenBufferedIsWritten ==
    (custom_write_fn /\ Returned) =>
        \A key \in Streams :
            /\ key \in DOMAIN written
            /\ Delivered(sink_calls, key) \o BufferOf(open_files, key)
                   = written[key]
            /\ IsPrefix(Delivered(sink_calls, key), written[key])

\* Two chunks have reached the byte-sink for a stream whose buffer holds
\* more.
C1_Witness ==
    /\ custom_write_fn /\ Returned
    /\ \E key \in Streams :
         /\ Len(Chunks(sink_calls, key)) >= 2
         /\ BufferOf(open_files, key) # NoBytes

\* The buffers of s are empty and teardown, in whatever order, delivers
\* nothing.
Drained(s) ==
    /\ \A key \in DOMAIN s.open_files :
           /\ s.open_files[key].buffer_file.buffer = NoBytes
           /\ s.open_files[key].buffer_file.position = 0
    /\ \A keys \in Orders(DOMAIN s.open_files) :
           /\ Ok(flush_all(s, keys))
           /\ NothingDelivered(s, flush_all(s, keys))

\* The byte-sink of s has received, for every stream, the bytes of log.
AllDelivered(s, log) ==
    \A key \in DOMAIN log : Delivered(s.sink_calls, key) = log[key]

CeilDiv(a, b) == (a + b - 1) \div b
FlushedByOverflow(T, C) == IF T <= C THEN 0 ELSE C * (CeilDiv(T, C) - 1)

\* C3: with a capacity C of at least 1 and no flush_all so far, the
\* byte-sink has received, of the T bytes written to a stream, nothing when
\* T <= C and else exactly the first C*(ceil(T/C)-1): a buffer is flushed
\* when a write exceeds what is left of it, and a buffer that is exactly
\* full waits for the next byte.
C3_OverflowFlushesWholeBuffers ==
    (custom_write_fn /\ buffer_size >= 1 /\ ~flushed /\ Returned) =>
        \A key \in Streams :
            /\ key \in DOMAIN written
            /\ Delivered(sink_calls, key) =
                   Take(written[key],
                        FlushedByOverflow(Len(written[key]), buffer_size))

\* Capacity 3, "hi" and then " there!" written to one stream: the sink has
\* "hi the" and the buffer, exactly full, keeps "re!".
C3_Witness ==
    /\ custom_write_fn /\ buffer_size = 3 /\ ~flushed /\ Returned
    /\ <<Name_slash, CSV_EXTENSION>> \in DOMAIN written
    /\ written[<<Name_slash, CSV_EXTENSION>>] = Txt_hi \o Txt_there
    /\ Delivered(sink_calls, <<Name_slash, CSV_EXTENSION>>)
           = <<104, 105, 32, 116, 104, 101>>
    /\ BufferOf(open_files, <<Name_slash, CSV_EXTENSION>>)
           = <<114, 101, 33>>

\* Every chunk of the log is non-empty and no longer than the capacity.
ChunksWithin(log) ==
    \A key \in DOMAIN log :
        \A i \in 1..Len(log[key]) : Len(log[key][i]) \in 1..buffer_size

\* Every chunk the call that ended in s handed over is a whole buffer.
OnlyFullChunks(s) ==
    \A key \in DOMAIN s.sink_calls \cup DOMAIN s.file_calls :
        /\ \A i \in 1..Len(NewChunks(s.sink_calls, sink_calls, key)) :
               Len(NewChunks(s.sink_calls, sink_calls, key)[i]) = buffer_size
        /\ \A i \in 1..Len(NewChunks(s.file_calls, file_calls, key)) :
               Len(NewChunks(s.file_calls, file_calls, key)[i]) = buffer_size

\* C4: every chunk handed to the byte-sink or to a file is non-empty and at
\* most capacity bytes long, and every chunk a write hands over (an overflow
\* flush) is exactly capacity bytes long: only flush_all hands over a
\* shorter one.
C4_ChunkSizes ==
    /\ ChunksWithin(sink_calls)
    /\ ChunksWithin(file_calls)
    /\ (pc = "live" /\ MayWrite) => \A s \in WriteResults : OnlyFullChunks(s)

\* A stream has had a whole buffer flushed by a write and then a shorter
\* chunk by flush_all, to the sink and to its file.
C4_Witness ==
    /\ flushed
    /\ \E key \in DOMAIN sink_calls \cap DOMAIN file_calls :
         /\ sink_calls[key] = file_calls[key]
         /\ Len(sink_calls[key]) >= 2
         /\ Len(sink_calls[key][1]) = buffer_size
         /\ Len(sink_calls[key][Len(sink_calls[key])]) < buffer_size

\* C5: in every state, every stream entry has position <= capacity, position
\* equal to the number of bytes its buffer holds, and the capacity it was
\* created with.
C5_PositionWithinCapacity ==
    \A key \in DOMAIN open_files :
        /\ open_files[key].buffer_file.position
               <= open_files[key].buffer_file.capacity
        /\ open_files[key].buffer_file.position
               = Len(open_files[key].buffer_file.buffer)
        /\ open_files[key].buffer_file.capacity = buffer_size

\* One entry's buffer is full and another's is partly filled.
C5_Witness ==
    \E k1, k2 \in DOMAIN open_files :
        /\ open_files[k1].buffer_file.position = buffer_size
        /\ open_files[k2].buffer_file.position \in 1..(buffer_size - 1)
        /\ Len(Chunks(sink_calls, k1)) >= 1

(***************************************************************************)
(* Local capture.                                                          *)
(***************************************************************************)
\* C6: in local mode no write changes a stream buffer, the map of streams,
\* last_file_key or the pending line, and none calls the byte-sink, the
\* line-sink or a file; outside local mode no write changes the capture
\* buffer.
C6_WritePathsExclusive ==
    (pc = "live" /\ MayWrite) =>
        \A s \in WriteResults :
            /\ local_mode =>
                /\ s.open_files = open_files
                /\ s.last_file_key = last_file_key
                /\ s.custom_line_buffer = custom_line_buffer
                /\ NothingDelivered(Self(0), s)
                /\ s.line_out = line_out
                /\ s.io = 0 /\ s.n_sink = 0 /\ s.n_file = 0
                /\ s.n_line = 0 /\ s.n_open = 0
                /\ s.local_buffer # local_buffer
            /\ ~local_mode =>
                /\ s.local_buffer = local_buffer
                /\ s.local_buffer_pos = local_buffer_pos
                /\ s.local_mode = local_mode

\* Text has been captured in local mode while a stream holds buffered bytes
\* and a pending line.
C6_Witness ==
    /\ local_mode /\ local_buffer # NoBytes
    /\ custom_line_buffer # NoBytes
    /\ \E key \in DOMAIN open_files : BufferOf(open_files, key) # NoBytes

\* C7: finish_local_buffer_mode returns the text written since the latest
\* start_local_buffer_mode, in call order, and leaves local_mode false, the
\* capture buffer empty and the streams and sinks as they were.
C7_FinishReturnsCapture ==
    (pc = "live" /\ local_mode) =>
        /\ finish_local_buffer_mode(Self(0)).value = local_written
        /\ ~finish_local_buffer_mode(Self(0)).local_mode
        /\ finish_local_buffer_mode(Self(0)).local_buffer = NoBytes
        /\ finish_local_buffer_mode(Self(0)).local_buffer_pos = 0
        /\ finish_local_buffer_mode(Self(0)).open_files = open_files
        /\ finish_local_buffer_mode(Self(0)).last_file_key = last_file_key
        /\ NothingDelivered(Self(0), finish_local_buffer_mode(Self(0)))

\* Two writes were captured and a start in between discarded the first: the
\* capture holds the second only.
C7_Witness ==
    /\ local_mode /\ pc = "live"
    /\ nwrites = 2 /\ written = EmptyMap
    /\ local_written = Txt_there
    /\ local_buffer = Txt_there

\* C8: the capture buffer is empty and local_buffer_pos is 0 whenever
\* local_mode is false; and finish_local_buffer_mode called outside local
\* mode returns the empty string, does not fail and leaves the writer as it
\* was.
C8_FinishOutsideLocalMode ==
    /\ ~local_mode => (local_buffer = NoBytes /\ local_buffer_pos = 0)
    /\ (pc = "live" /\ ~local_mode) =>
        /\ finish_local_buffer_mode(Self(0)).value = NoBytes
        /\ Ok(finish_local_buffer_mode(Self(0)))
        /\ [finish_local_buffer_mode(Self(0)) EXCEPT !.value = NoBytes]
               = Self(0)

\* A capture has been finished, and the writer is outside local mode with
\* bytes in a stream's buffer.
C8_Witness ==
    /\ ~local_mode /\ pc = "live"
    /\ nwrites = 2 /\ Cardinality(DOMAIN written) = 1
    /\ \E key \in DOMAIN written :
         /\ written[key] = Txt_hi
         /\ BufferOf(open_files, key) = Txt_hi

(***************************************************************************)
(* The pending line.                                                       *)
(***************************************************************************)
\* The line the line-sink is handed by an end_line called in this state.
HandedLine(types) == Unwrap(end_line(Self(0), types).line_out).line

C10_EndLineClearsWhenOk ==
    (pc = "live") =>
        \A types \in Types :
        \A failAt \in 0..end_line(Self(0), types).io :
            IF Ok(end_line(Self(failAt), types))
            THEN end_line(Self(failAt), types).custom_line_buffer = NoBytes
            ELSE /\ failAt # 0
                 /\ end_line(Self(failAt), types).custom_line_buffer
                        = custom_line_buffer

\* An end_line has failed and the text of the line is still pending.
C10_Witness ==
    /\ custom_line_fn /\ pc = "live" /\ nfaults >= 1
    /\ line_written = NoBytes
    /\ custom_line_buffer # NoBytes

\* C10 (as stated): after any end_line the pending line is empty, whatever
\* the line-sink returned.
C10_EndLineAlwaysClears ==
    (pc = "live") =>
        \A types \in Types :
        \A failAt \in 0..end_line(Self(0), types).io :
            end_line(Self(failAt), types).custom_line_buffer = NoBytes

\* The stream name the line-sink is handed by an end_line called in this
\* state, and the name an Option of a name stands for.
HandedName(types) == Unwrap(end_line(Self(0), types).line_out).name
NameOf(o) == IF o = None THEN NoBytes ELSE Unwrap(o)

Again(s) ==
    [s EXCEPT !.io = 0, !.n_sink = 0, !.n_file = 0, !.n_line = 0,
              !.n_open = 0, !.n_sync = 0]

\* The streams of s that have an open file.
WithFile(s) == {key \in DOMAIN s.open_files : s.open_files[key].file # None}

\* A second flush_all, right after the one that ended in s and over the
\* same map (which yields its keys in the same order), calls no sink,
\* writes no file and leaves the writer and the world as they were; it
\* calls File::flush on every open file.
SecondFlushIdle(s, keys) ==
    /\ [flush_all(Again(s), keys) EXCEPT !.n_sync = 0] = Again(s)
    /\ flush_all(Again(s), keys).n_sync = Cardinality(WithFile(s))

\* C12 (as amended): flush_all called twice with no write in between: the
\* second call invokes no byte-sink, writes no file and leaves the writer
\* state as the first call left it; it does call File::flush again, once
\* for every stream with an open file.
C12_FlushAllTwice ==
    (pc = "live") =>
        \A keys \in Orders(DOMAIN open_files) :
            Ok(flush_all(Self(0), keys)) =>
                SecondFlushIdle(flush_all(Self(0), keys), keys)

\* A flush_all has emptied the buffers of two streams with open files into
\* the sink and the files.
C12_Witness ==
    /\ pc = "live" /\ flushed /\ write_to_disk /\ custom_write_fn
    /\ Cardinality(DOMAIN open_files) >= 2
    /\ \A key \in DOMAIN open_files :
         /\ BufferOf(open_files, key) = NoBytes
         /\ open_files[key].file # None
         /\ Chunks(sink_calls, key) # << >>
         /\ Chunks(file_calls, key) = Chunks(sink_calls, key)

\* C12 (as stated): the second call does no I/O at all, File::flush
\* included.
C12_SecondFlushAllCallsNothing ==
    (pc = "live") =>
        \A keys \in Orders(DOMAIN open_files) :
            Ok(flush_all(Self(0), keys)) =>
                flush_all(Again(flush_all(Self(0), keys)), keys)
                    = Again(flush_all(Self(0), keys))

\* C13: teardown attempts a final flush of all streams and, when that flush
\* fails, only logs the failure: it never panics, in any build.
C13_TeardownNeverPanics == pc # "panicked"

\* C14: a capacity of 0 is rejected when the writer is constructed, so no
\* write of non-empty data spins forever in write_bytes.
C14_NoWriteSpinsForever == pc # "hung"

(***************************************************************************)
(* Failures of the sinks and the file system.                              *)
(***************************************************************************)
\* The failures of a file open, the byte-sink callback and a file write.
SinkFailures == {"open", "custom_write_fn", "Failed to write to file"}

\* The number of chunks a log received during a call.
NewCount(after, before) ==
    Cardinality(UNION {{<<key, i>> :
                           i \in 1..Len(NewChunks(after, before, key))} :
                       key \in DOMAIN after})

\* The call that ended in s returned an error, and the call that failed was
\* the last call it made of a sink or of the file system.
AbortedAtOnce(s) == s.err # NoErr /\ ~s.hung /\ s.io = s.failAt

\* The sink that failed was called once for the chunk it failed on, every
\* call before it succeeded, and no sink was called for that chunk after it.
FailedOnce(s) ==
    /\ s.cause = "custom_write_fn" =>
        /\ s.n_sink = NewCount(s.sink_calls, sink_calls) + 1
        /\ s.n_file = NewCount(s.file_calls, file_calls)
    /\ s.cause = "Failed to write to file" =>
        /\ s.n_file = NewCount(s.file_calls, file_calls) + 1
        /\ s.n_sink = NewCount(s.sink_calls, sink_calls)
    /\ s.cause = "open" =>
        /\ s.n_open = 0 /\ s.n_sink = 0 /\ s.n_file = 0
        /\ s.open_files = open_files

\* What C15 says of a write to key, or of a flush_all (key is None), in
\* which a call has failed.
FailsCleanly(s, key) ==
    /\ s.err # NoErr
    /\ s.cause \in SinkFailures =>
        /\ AbortedAtOnce(s)
        /\ FailedOnce(s)
        /\ (key # None /\ s.cause # "open") =>
               BufferOf(s.open_files, Unwrap(key)) = NoBytes

\* C15: a failure of a file open, a file write or the byte-sink callback
\* aborts the write or the flush_all at once and is returned as an error:
\* the failing sink is called once for the failing chunk, no sink is called
\* after it, and no more bytes of the current write are appended.
C15_FailureAbortsAtOnce ==
    (pc = "live") =>
        /\ \A a \in FaultyStringWrites :
           \A failAt \in 1..write_string(Self(0), a[1], a[2], a[3]).io :
               FailsCleanly(write_string(Self(failAt), a[1], a[2], a[3]),
                            Some(<<a[1], a[2]>>))
        /\ \A a \in FaultyCharWrites :
           \A failAt \in 1..write_char(Self(0), a[1], a[2], a[3]).io :
               FailsCleanly(write_char(Self(failAt), a[1], a[2], a[3]),
                            Some(<<a[1], a[2]>>))
        /\ \A keys \in Orders(DOMAIN open_files) :
           \A failAt \in 1..flush_all(Self(0), keys).io :
               FailsCleanly(flush_all(Self(failAt), keys), None)

\* An operation has failed after the byte-sink had received the chunk: the
\* file has not received it and the buffer holds nothing of the write.
C15_Witness ==
    /\ pc = "live" /\ nfaults = 1
    /\ \E key \in DOMAIN open_files :
         /\ open_files[key].file # None
         /\ Len(Chunks(sink_calls, key)) = Len(Chunks(file_calls, key)) + 1
         /\ BufferOf(open_files, key) = NoBytes
         /\ written[key] # Delivered(sink_calls, key)

(***************************************************************************)
(* Stream resolution.                                                      *)
(***************************************************************************)
\* The keys get_file_entry is asked for: the names "a/b", "a-b" and "A/B"
\* with the extensions ".csv", "csv" and ".CSV".
Name_upper == <<65, 47, 66>>
Ext_upper == <<46, 67, 83, 86>>
ProbeKeys ==
    {Name_slash, Name_hyphen, Name_upper}
        \X {CSV_EXTENSION, trim_start_matches(CSV_EXTENSION, Dot), Ext_upper}

\* last_file_key names an entry of the map.
Coherent(s) ==
    s.last_file_key = None \/ Unwrap(s.last_file_key) \in DOMAIN s.open_files

\* Every entry of the current map is still in s, with the file it has.
Kept(s) ==
    \A k \in DOMAIN open_files :
        k \in DOMAIN s.open_files /\ s.open_files[k].file = open_files[k].file

\* Every entry of the current map but key's is in s as it is now, and so is
\* what the sinks have received for it.
OthersUntouched(s, key) ==
    \A k \in (DOMAIN s.open_files \cup DOMAIN open_files) \ {key} :
        /\ k \in DOMAIN open_files /\ k \in DOMAIN s.open_files
        /\ s.open_files[k] = open_files[k]
        /\ Chunks(s.sink_calls, k) = Chunks(sink_calls, k)
        /\ Chunks(s.file_calls, k) = Chunks(file_calls, k)

\* get_file_entry returned r for key: the entry is key's, it was opened
\* only if key had none, and no other entry was touched.
Resolved(r, key) ==
    /\ Coherent(r) /\ Kept(r) /\ OthersUntouched(r, key)
    /\ key \in DOMAIN open_files =>
           r.err = NoErr /\ r.n_open = 0 /\ r.open_files = open_files
    /\ r.err = NoErr =>
           /\ r.entry = Some(key) /\ r.last_file_key = Some(key)
           /\ key \in DOMAIN r.open_files
    /\ r.err # NoErr => r.open_files = open_files

\* A write of bytes to key ended in s: the bytes are in key's buffer or
\* went to the sinks under key, and nowhere else.
Reached(s, key, bytes) ==
    /\ Coherent(s) /\ Kept(s) /\ OthersUntouched(s, key)
    /\ (Ok(s) /\ ~local_mode) =>
        /\ key \in DOMAIN s.open_files
        /\ custom_write_fn =>
               Delivered(s.sink_calls, key) \o BufferOf(s.open_files, key)
                   = Delivered(sink_calls, key) \o BufferOf(open_files, key)
                         \o bytes
        /\ write_to_disk =>
               Delivered(s.file_calls, key) \o BufferOf(s.open_files, key)
                   = Delivered(file_calls, key) \o BufferOf(open_files, key)
                         \o bytes
        /\ Len(BufferOf(s.open_files, key)) <=
               Len(BufferOf(open_files, key)) + Len(bytes)

\* C16: a write addressed to a key reaches the entry of exactly that key,
\* through the last_file_key fast path or through the map lookup; keys
\* that differ in a component or in case have entries of their own; an
\* entry is created once and never removed, and last_file_key is None or a
\* key of the map.
C16_StreamResolutionIsExact ==
    /\ Coherent(Self(0))
    /\ (pc = "live") =>
        /\ \A key \in ProbeKeys :
           \A failAt \in 0..get_file_entry(Self(0), key[1], key[2]).io :
               Resolved(get_file_entry(Self(failAt), key[1], key[2]), key)
        /\ \A a \in StringWrites :
               Reached(write_string(Self(0), a[1], a[2], a[3]),
                       <<a[1], a[2]>>, a[3])
        /\ \A a \in CharWrites :
               Reached(write_char(Self(0), a[1], a[2], a[3]),
                       <<a[1], a[2]>>, encode_utf8(a[3]))
        /\ \A a \in RecordWrites :
               Reached(write_csv_record(Self(0), a[1], a[2]),
                       <<a[1], trim_start_matches(CSV_EXTENSION, Dot)>>,
                       CsvRecord(a[2]))
        /\ \A keys \in Orders(DOMAIN open_files) :
               /\ Coherent(flush_all(Self(0), keys))
               /\ Kept(flush_all(Self(0), keys))
               /\ DOMAIN flush_all(Self(0), keys).open_files
                      = DOMAIN open_files

\* Two streams of one name and different extensions hold what was written
\* to each of them, and after both writes a flush_all has come to the
\* ".csv" one last and found it by the map lookup.
C16_Witness ==
    /\ pc = "live" /\ flushed /\ buffer_size = 3 /\ custom_write_fn
    /\ <<Name_slash, CSV_EXTENSION>> \in DOMAIN open_files
    /\ <<Name_slash, trim_start_matches(CSV_EXTENSION, Dot)>>
           \in DOMAIN open_files
    /\ written[<<Name_slash, CSV_EXTENSION>>] = Txt_hi
    /\ Delivered(sink_calls, <<Name_slash, CSV_EXTENSION>>) = Txt_hi
    /\ Delivered(sink_calls,
                 <<Name_slash, trim_start_matches(CSV_EXTENSION, Dot)>>)
           = CsvRecord(<< <<97, Comma, 98>>, <<99>> >>)
    /\ last_file_key = Some(<<Name_slash, CSV_EXTENSION>>)

(***************************************************************************)
(* CSV records.                                                            *)
(***************************************************************************)
\* The stream of write_string(filename, CSV_EXTENSION, ...).
CsvStream(filename) == <<filename, CSV_EXTENSION>>

\* C17: write_csv_record(name, fields) writes the row to the stream whose
\* extension is CSV_EXTENSION: it resolves the entry write_string(name,
\* CSV_EXTENSION, ...) resolves, and the byte-sink is told of no other
\* (name, extension) pair.
C17_RecordGoesToCsvExtensionStream ==
    (pc = "live" /\ ~local_mode) =>
        \A a \in RecordWrites :
            Ok(write_csv_record(Self(0), a[1], a[2])) =>
                /\ write_csv_record(Self(0), a[1], a[2]).last_file_key
                       = write_string(Self(0), a[1], CSV_EXTENSION,
                                      NoBytes).last_file_key
                /\ CsvStream(a[1]) \in
                       DOMAIN write_csv_record(Self(0), a[1], a[2]).open_files
                /\ DOMAIN write_csv_record(Self(0), a[1], a[2]).sink_calls
                       \subseteq DOMAIN sink_calls \cup {CsvStream(a[1])}

(***************************************************************************)
(* parse_csv_line (fec/parser.rs 131-143): csv::Reader without headers,    *)
(* delimiter ',', quote '"' with doubled quotes, and '\r' and '\n' as      *)
(* record terminators; the first record's fields, or none when the input   *)
(* holds no record.                                                        *)
(***************************************************************************)
RECURSIVE read_record(_, _, _, _, _)
\* The reader's automaton from position i of input: record holds the
\* fields finished so far and field the bytes of the current one.
read_record(input, i, state, record, field) ==
    IF i > Len(input)
    THEN IF state = "StartRecord" THEN None
         ELSE Some(record \o <<field>>)
    ELSE IF state = "StartRecord"
    THEN IF input[i] \in {CR, LF}
         THEN read_record(input, i + 1, "StartRecord", record, field)
         ELSE read_record(input, i, "StartField", record, field)
    ELSE IF state = "InQuotedField"
    THEN IF input[i] = Quote
         THEN read_record(input, i + 1, "InDoubleEscapedQuote", record,
                          field)
         ELSE read_record(input, i + 1, "InQuotedField", record,
                          field \o <<input[i]>>)
    ELSE IF input[i] = Quote /\ state = "StartField"
    THEN read_record(input, i + 1, "InQuotedField", record, field)
    ELSE IF input[i] = Quote /\ state = "InDoubleEscapedQuote"
    THEN read_record(input, i + 1, "InQuotedField", record,
                     field \o <<Quote>>)
    ELSE IF input[i] = Comma
    THEN read_record(input, i + 1, "StartField", record \o <<field>>,
                     << >>)
    ELSE IF input[i] \in {CR, LF}
    THEN Some(record \o <<field>>)
    ELSE read_record(input, i + 1, "InField", record,
                     field \o <<input[i]>>)

\* Lines 137-142: the first record, or vec![] when there is none.
FirstRecord(o) == IF o = None THEN << >> ELSE Unwrap(o)

parse_csv_line(line) ==
    FirstRecord(read_record(line, 1, "StartRecord", << >>, << >>))

(***************************************************************************)
(* A caller that writes one field list as CSV records and splits the       *)
(* output again (fec/parser.rs 95-110).                                    *)
(***************************************************************************)
\* The bytes fields are made of: 'a', ',', '"', '\r' and '\n'.
Alphabet == {97, Comma, Quote, CR, LF}

\* "output", the name parse_line writes its records under
Name_output == <<111, 117, 116, 112, 117, 116>>
OutputStream == <<Name_output, trim_start_matches(CSV_EXTENSION, Dot)>>

RECURSIVE Strings(_)
\* The byte strings of length n.
Strings(n) ==
    IF n = 0 THEN {<< >>}
    ELSE {<<c>> \o s : c \in Alphabet, s \in Strings(n - 1)}

RECURSIVE FieldListsOf(_, _)
\* The lists of n fields that hold at most chars bytes together.
FieldListsOf(n, chars) ==
    IF n = 0 THEN {<< >>}
    ELSE UNION {{<<f>> \o rest : f \in Strings(k),
                                 rest \in FieldListsOf(n - 1, chars - k)} :
                k \in 0..chars}

FieldLists == UNION {FieldListsOf(n, MaxChars) : n \in 0..MaxFields}

\* The splitter reads the output once it has all been delivered.
ParseCsvLine ==
    /\ pc = "live" /\ csv_parsed = None
    /\ OutputStream \in DOMAIN sink_calls
    /\ BufferOf(open_files, OutputStream) = NoBytes
    /\ csv_parsed' = Some(parse_csv_line(Delivered(sink_calls, OutputStream)))
    /\ UNCHANGED <<config, ctx, world, pc, history, csv_fields, raw_line,
                   decoded_line, fec>>

InitCsv ==
    /\ Construct
    /\ fallible = FALSE /\ ~write_to_disk /\ custom_write_fn
    /\ ~custom_line_fn /\ buffer_size = MaxCap
    /\ csv_fields \in FieldLists /\ csv_parsed = None
    /\ raw_line = << >> /\ decoded_line = None
    /\ fec = FecRun("idle", << >>)

NextCsv ==
    \/ WriteCsvRecord(Name_output, csv_fields)
    \/ FlushAll
    \/ ParseCsvLine

SpecCsv == InitCsv /\ [][NextCsv]_vars

\* What the claim says a field is written as, with special the bytes that
\* call for quotes.
Wrapped(field) ==
    <<Quote>>
        \o Concat([i \in 1..Len(field) |->
                      IF field[i] = Quote THEN <<Quote, Quote>>
                      ELSE <<field[i]>>])
        \o <<Quote>>
Emitted(field, special) ==
    IF \E i \in 1..Len(field) : field[i] \in special THEN Wrapped(field)
    ELSE field
Row(fields, special) ==
    Concat([i \in 1..Len(fields) |->
               (IF i = 1 THEN << >> ELSE <<Comma>>)
                   \o Emitted(fields[i], special)])

RECURSIVE Repeat(_, _)
Repeat(s, n) == IF n = 0 THEN << >> ELSE s \o Repeat(s, n - 1)

\* The bytes written to the output stream so far.
Output ==
    Delivered(sink_calls, OutputStream) \o BufferOf(open_files, OutputStream)

\* C18 as amended: each record written is its fields joined by commas and
\* ended by '\n'; a field that holds a comma, a double quote, '\r' or '\n'
\* is wrapped in double quotes with its double quotes doubled, any other
\* field is written as given, and a record that would be empty (no field,
\* or one empty field) is written as "".
C18_RecordSerialization ==
    (pc = "live") =>
        Output = Repeat((IF Row(csv_fields, {Comma, Quote, CR, LF}) = << >>
                         THEN <<Quote, Quote>>
                         ELSE Row(csv_fields, {Comma, Quote, CR, LF}))
                            \o <<LF>>,
                        nwrites)

\* The record ['\n', '"a'] has been written and flushed: both fields were
\* quoted, the first for its '\n'.
C18_Witness ==
    /\ pc = "live" /\ flushed /\ nwrites = 1
    /\ csv_fields = << <<LF>>, <<Quote, 97>> >>
    /\ Delivered(sink_calls, OutputStream)
           = <<Quote, LF, Quote, Comma, Quote, Quote, Quote, 97, Quote, LF>>

\* C18 as stated: only a field that holds a comma or a double quote is
\* wrapped in quotes, every other field is written as given, and the
\* fields are joined by commas.
C18_QuotesOnlyForCommaAndQuote ==
    (pc = "live") =>
        Output = Repeat(Row(csv_fields, {Comma, Quote}) \o <<LF>>, nwrites)

\* C19 as amended: splitting the written output with parse_csv_line gives
\* back the field list that was written when it has at least one field;
\* the empty field list comes back as one empty field.
C19_RoundTrip ==
    (csv_parsed # None) =>
        Unwrap(csv_parsed)
            = (IF csv_fields = << >> THEN << << >> >> ELSE csv_fields)

\* The record ['",', '\n'] has come back from the splitter.
C19_Witness ==
    /\ csv_fields = << <<Quote, Comma>>, <<LF>> >>
    /\ csv_parsed = Some(csv_fields)

\* C19 as stated: every field list comes back from the splitter.
C19_EveryFieldListComesBack ==
    (csv_parsed # None) => Unwrap(csv_parsed) = csv_fields

(***************************************************************************)
(* encoding/mod.rs: collect_line_info, iso_8859_1_to_utf8, decode_line.    *)
(* A panic of the code (an index out of the table, an unwrap of Err) is    *)
(* recorded in the result's panicked field.                                *)
(***************************************************************************)
UTF8_ACCEPT == 0
UTF8_REJECT == 1

\* The table UTF8D (lines 15-44); UTF8D[i] of the code is UTF8D[i + 1] here.
UTF8D ==
    <<
    0, 0, 0, 0, 0, 0, 0, 0, 0, 0, 0, 0, 0, 0, 0, 0,
    0, 0, 0, 0, 0, 0, 0, 0, 0, 0, 0, 0, 0, 0, 0, 0,
    0, 0, 0, 0, 0, 0, 0, 0, 0, 0, 0, 0, 0, 0, 0, 0,
    0, 0, 0, 0, 0, 0, 0, 0, 0, 0, 0, 0, 0, 0, 0, 0,
    0, 0, 0, 0, 0, 0, 0, 0, 0, 0, 0, 0, 0, 0, 0, 0,
    0, 0, 0, 0, 0, 0, 0, 0, 0, 0, 0, 0, 0, 0, 0, 0,
    0, 0, 0, 0, 0, 0, 0, 0, 0, 0, 0, 0, 0, 0, 0, 0,
    0, 0, 0, 0, 0, 0, 0, 0, 0, 0, 0, 0, 0, 0, 0, 0,
    1, 1, 1, 1, 1, 1, 1, 1, 1, 1, 1, 1, 1, 1, 1, 1,
    9, 9, 9, 9, 9, 9, 9, 9, 9, 9, 9, 9, 9, 9, 9, 9,
    7, 7, 7, 7, 7, 7, 7, 7, 7, 7, 7, 7, 7, 7, 7, 7,
    7, 7, 7, 7, 7, 7, 7, 7, 7, 7, 7, 7, 7, 7, 7, 7,
    8, 8, 2, 2, 2, 2, 2, 2, 2, 2, 2, 2, 2, 2, 2, 2,
    2, 2, 2, 2, 2, 2, 2, 2, 2, 2, 2, 2, 2, 2, 2, 2,
    10, 3, 3, 3, 3, 3, 3, 3, 3, 3, 3, 3, 3, 4, 3, 3,
    11, 6, 6, 6, 5, 8, 8, 8, 8, 8, 8, 8, 8, 8, 8, 8,
    0, 1, 2, 3, 5, 8, 7, 1, 1, 1, 4, 6, 1, 1, 1, 1,
    1, 1, 1, 1, 1, 1, 1, 1, 1, 1, 1, 1, 1, 1, 1, 1,
    1, 0, 1, 1, 1, 1, 1, 0, 1, 0, 1, 1, 1, 1, 1, 1,
    1, 2, 1, 1, 1, 1, 1, 2, 1, 2, 1, 1, 1, 1, 1, 1,
    1, 1, 1, 1, 1, 1, 1, 2, 1, 1, 1, 1, 1, 1, 1, 1,
    1, 2, 1, 1, 1, 1, 1, 1, 1, 2, 1, 1, 1, 1, 1, 1,
    1, 1, 1, 1, 1, 1, 1, 3, 1, 3, 1, 1, 1, 1, 1, 1,
    1, 3, 1, 1, 1, 1, 1, 3, 1, 3, 1, 1, 1, 1, 1, 1,
    1, 3, 1, 1, 1, 1, 1, 1, 1, 1, 1, 1, 1, 1, 1, 1 >>

\* std::str::from_utf8: whether the bytes from position i on are
\* well-formed UTF-8.
Cont(s, i, lo, hi) == i <= Len(s) /\ s[i] >= lo /\ s[i] <= hi

RECURSIVE IsUtf8From(_, _)
IsUtf8From(s, i) ==
    IF i > Len(s) THEN TRUE
    ELSE IF s[i] < 128 THEN IsUtf8From(s, i + 1)
    ELSE IF s[i] >= 194 /\ s[i] <= 223
    THEN Cont(s, i + 1, 128, 191) /\ IsUtf8From(s, i + 2)
    ELSE IF s[i] >= 224 /\ s[i] <= 239
    THEN /\ Cont(s, i + 1, (IF s[i] = 224 THEN 160 ELSE 128),
                 (IF s[i] = 237 THEN 159 ELSE 191))
         /\ Cont(s, i + 2, 128, 191)
         /\ IsUtf8From(s, i + 3)
    ELSE IF s[i] >= 240 /\ s[i] <= 244
    THEN /\ Cont(s, i + 1, (IF s[i] = 240 THEN 144 ELSE 128),
                 (IF s[i] = 244 THEN 143 ELSE 191))
         /\ Cont(s, i + 2, 128, 191)
         /\ Cont(s, i + 3, 128, 191)
         /\ IsUtf8From(s, i + 4)
    ELSE FALSE

from_utf8(s) == IsUtf8From(s, 1)

\* A faulty default with the separator flag set.
LineInfo_default_sep ==
    [ascii28 |-> TRUE, ascii_only |-> TRUE, valid_utf8 |-> TRUE,
     length |-> 0, panicked |-> FALSE]

\* LineInfo::default (lines 60-69)
LineInfo_default ==
    [ascii28 |-> FALSE, ascii_only |-> TRUE, valid_utf8 |-> TRUE,
     length |-> 0, panicked |-> FALSE]

\* Lines 92-94: the index into the table's transitions, and the state read
\* there; an index past the table panics.
NextIndex(state, byte) == 256 + (state * 16 + UTF8D[byte + 1])
\* A faulty automaton that lets 0xA0..0xBF follow 0xED (a surrogate).
NextState_surrogate(state, byte) ==
    IF state = 5 /\ byte >= 160 /\ byte <= 191 THEN 2
    ELSE IF NextIndex(state, byte) >= Len(UTF8D) THEN UTF8_REJECT
    ELSE UTF8D[NextIndex(state, byte) + 1]

\* A faulty automaton that rejects every byte above 127.
NextState_ascii(state, byte) ==
    IF byte > 127 THEN UTF8_REJECT ELSE UTF8_ACCEPT

NextState(state, byte) ==
    IF NextIndex(state, byte) >= Len(UTF8D) THEN UTF8_REJECT
    ELSE UTF8D[NextIndex(state, byte) + 1]

RECURSIVE ScanLine_stop(_, _, _, _)
\* A faulty loop that leaves the line at the first rejected byte.
ScanLine_stop(line, i, state, info) ==
    IF i > Len(line) \/ info.panicked \/ ~info.valid_utf8 THEN info
    ELSE ScanLine_stop(line, i + 1, NextState(state, line[i]),
                  [ascii28 |-> info.ascii28 \/ line[i] = 28,
                   ascii_only |-> info.ascii_only /\ ~(line[i] > 127),
                   valid_utf8 |-> info.valid_utf8
                       /\ NextState(state, line[i]) # UTF8_REJECT,
                   length |-> info.length + 1,
                   panicked |-> NextIndex(state, line[i]) >= Len(UTF8D)])

RECURSIVE ScanLine(_, _, _, _)
\* collect_line_info's loop (lines 82-100) from position i.
ScanLine(line, i, state, info) ==
    IF i > Len(line) \/ info.panicked THEN info
    ELSE ScanLine(line, i + 1, NextState(state, line[i]),
                  [ascii28 |-> info.ascii28 \/ line[i] = 28,
                   ascii_only |-> info.ascii_only /\ ~(line[i] > 127),
                   valid_utf8 |-> info.valid_utf8
                       /\ NextState(state, line[i]) # UTF8_REJECT,
                   length |-> info.length + 1,
                   panicked |-> NextIndex(state, line[i]) >= Len(UTF8D)])

collect_line_info(line) == ScanLine(line, 1, UTF8_ACCEPT, LineInfo_default)

\* A faulty conversion whose lead byte is always 0xC2.
iso_8859_1_to_utf8_c2(line) ==
    Concat([i \in 1..Len(line) |->
               IF line[i] < 128 THEN <<line[i]>>
               ELSE <<194, ((line[i] % 64) + 128) % 256>>])

\* A faulty conversion that copies every byte.
iso_8859_1_to_utf8_copy(line) == line

\* iso_8859_1_to_utf8 (lines 104-120), in u8 arithmetic.
iso_8859_1_to_utf8(line) ==
    Concat([i \in 1..Len(line) |->
               IF line[i] < 128 THEN <<line[i]>>
               ELSE <<(194 + (IF line[i] > 191 THEN 1 ELSE 0)) % 256,
                      ((line[i] % 64) + 128) % 256>>])

\* String::from_utf8(converted).unwrap() (lines 134-135 and 147-148)
UnwrapString(converted, ascii28) ==
    IF from_utf8(converted)
    THEN [s |-> converted, ascii28 |-> ascii28, panicked |-> FALSE]
    ELSE [s |-> NoBytes, ascii28 |-> ascii28, panicked |-> TRUE]

\* A faulty variant of lines 131-149 that trusts valid_utf8 and returns the
\* line without asking from_utf8.
AfterLineInfo_trusting(line, info) ==
    IF info.panicked
    THEN [s |-> NoBytes, ascii28 |-> info.ascii28, panicked |-> TRUE]
    ELSE IF ~info.valid_utf8
    THEN UnwrapString(iso_8859_1_to_utf8(line), info.ascii28)
    ELSE [s |-> line, ascii28 |-> info.ascii28, panicked |-> FALSE]

\* Lines 131-149 once collect_line_info has returned info.
AfterLineInfo(line, info) ==
    IF info.panicked
    THEN [s |-> NoBytes, ascii28 |-> info.ascii28, panicked |-> TRUE]
    ELSE IF ~info.valid_utf8
    THEN UnwrapString(iso_8859_1_to_utf8(line), info.ascii28)
    ELSE IF from_utf8(line)
    THEN [s |-> line, ascii28 |-> info.ascii28, panicked |-> FALSE]
    ELSE UnwrapString(iso_8859_1_to_utf8(line), info.ascii28)

decode_line(line) == AfterLineInfo(line, collect_line_info(line))

(***************************************************************************)
(* The decoder of fec/mod.rs, which asks the standard library whether a    *)
(* line is UTF-8.                                                          *)
(***************************************************************************)
\* LineInfo::new (fec/mod.rs 27-34)
LineInfo_new ==
    [ascii28 |-> FALSE, ascii_only |-> TRUE, valid_utf8 |-> TRUE,
     length |-> 0]

RECURSIVE fec_ScanBytes(_, _, _)
\* fec::collect_line_info's loop over the bytes (lines 47-55) from
\* position i.
fec_ScanBytes(data, i, info) ==
    IF i > Len(data) THEN info
    ELSE fec_ScanBytes(data, i + 1,
                       [ascii28 |-> info.ascii28 \/ data[i] = 28,
                        ascii_only |-> info.ascii_only /\ ~(data[i] > 127),
                        valid_utf8 |-> info.valid_utf8,
                        length |-> info.length + 1])

\* A faulty fec::collect_line_info that takes every line with a byte above
\* 127 for ill-formed.
fec_collect_line_info_asciionly(data) ==
    [fec_ScanBytes(data, 1, LineInfo_new) EXCEPT
       !.valid_utf8 = fec_ScanBytes(data, 1, LineInfo_new).ascii_only]

\* fec::collect_line_info (lines 43-64)
fec_collect_line_info(data) ==
    [fec_ScanBytes(data, 1, LineInfo_new) EXCEPT
       !.valid_utf8 = @ /\ from_utf8(data)]

\* fec's iso_8859_1_to_utf8 (lines 73-90), in u8 arithmetic.
fec_iso_8859_1_to_utf8(data) ==
    Concat([i \in 1..Len(data) |->
               IF data[i] < 128 THEN <<data[i]>>
               ELSE <<(194 + (IF data[i] > 191 THEN 1 ELSE 0)) % 256,
                      ((data[i] % 64) + 128) % 256>>])

\* "<invalid iso_8859_1 data>" (line 116)
InvalidIsoData ==
    <<60, 105, 110, 118, 97, 108, 105, 100, 32, 105, 115, 111, 95, 56, 56,
      53, 57, 95, 49, 32, 100, 97, 116, 97, 62>>

\* Lines 107-118 once collect_line_info has returned info: the line as it
\* is (the unwrap panics on bytes that are not UTF-8), or its conversion,
\* replaced by the placeholder when that is not UTF-8.
fec_AfterLineInfo(data, info) ==
    IF info.valid_utf8
    THEN [s |-> (IF from_utf8(data) THEN data ELSE NoBytes), info |-> info,
          panicked |-> ~from_utf8(data), placeholder |-> FALSE]
    ELSE IF from_utf8(fec_iso_8859_1_to_utf8(data))
    THEN [s |-> fec_iso_8859_1_to_utf8(data), info |-> info,
          panicked |-> FALSE, placeholder |-> FALSE]
    ELSE [s |-> InvalidIsoData, info |-> info,
          panicked |-> FALSE, placeholder |-> TRUE]

\* fec::decode_line (lines 103-119)
fec_decode_line(data) == fec_AfterLineInfo(data, fec_collect_line_info(data))

(***************************************************************************)
(* A caller that decodes one raw line (fec/parser.rs 48-58).               *)
(***************************************************************************)
\* One byte or more of every class of the table and of every range of
\* well-formed UTF-8: 'A', the separator 28, continuation bytes, the lead
\* bytes of two, three and four byte sequences and the bytes that are
\* never valid.
LineBytes ==
    {65, 28, 128, 144, 160, 191, 192, 194, 224, 225, 237, 240, 241, 244,
     245, 255}

RECURSIVE LinesOf(_)
\* The raw lines of n bytes.
LinesOf(n) ==
    IF n = 0 THEN {<< >>}
    ELSE {l \o <<b>> : l \in LinesOf(n - 1), b \in LineBytes}

RawLines == UNION {LinesOf(n) : n \in 0..MaxLineLen}

DecodeLine ==
    /\ decoded_line = None
    /\ decoded_line' = Some(decode_line(raw_line))
    /\ UNCHANGED <<config, ctx, world, pc, history, csv_fields, csv_parsed,
                   raw_line, fec>>

InitDecode ==
    /\ Construct
    /\ fallible = FALSE /\ ~write_to_disk /\ ~custom_write_fn
    /\ ~custom_line_fn /\ buffer_size = MaxCap
    /\ csv_fields = << >> /\ csv_parsed = None
    /\ raw_line \in RawLines /\ decoded_line = None
    /\ fec = FecRun("idle", << >>)

NextDecode == DecodeLine

SpecDecode == InitDecode /\ [][NextDecode]_vars

\* decode_line returned, and what it returned is well-formed UTF-8.
Total(r) == ~r.panicked /\ from_utf8(r.s)

\* C20: decode_line is total: for every byte sequence it returns without
\* panicking and the text it returns is well-formed UTF-8.  (Every line of
\* up to MaxLineLen bytes of LineBytes is decoded; every byte value 0..255
\* is tried before and after each line of at most one byte.)
C20_DecodeLineIsTotal ==
    /\ decoded_line # None => Total(Unwrap(decoded_line))
    /\ Len(raw_line) <= 1 =>
           \A b \in 0..255 :
               /\ Total(decode_line(raw_line \o <<b>>))
               /\ Total(decode_line(<<b>> \o raw_line))

\* A line that ends inside a three-byte sequence: the state machine has
\* not rejected it, from_utf8 has, and the line was converted from
\* ISO-8859-1.
C20_Witness ==
    /\ raw_line = <<65, 225, 128>>
    /\ collect_line_info(raw_line).valid_utf8
    /\ decoded_line = Some([s |-> <<65, 195, 161, 194, 128>>,
                            ascii28 |-> FALSE, panicked |-> FALSE])

\* C21: decoding well-formed UTF-8 is the identity, and decode_line is
\* idempotent on its own output: decoding the text it returned gives the
\* same text and the same separator flag.  (Checked for the line that was
\* decoded and for that line with one more byte.)
C21_DecodeKeepsValidUtf8 ==
    /\ \A b \in LineBytes :
           from_utf8(raw_line \o <<b>>) =>
               decode_line(raw_line \o <<b>>).s = raw_line \o <<b>>
    /\ decoded_line # None =>
           /\ from_utf8(raw_line) => Unwrap(decoded_line).s = raw_line
           /\ decode_line(Unwrap(decoded_line).s) = Unwrap(decoded_line)

\* The three-byte sequence U+0800 has been decoded and came back as it
\* was.
C21_Witness ==
    /\ raw_line = <<224, 160, 128>>
    /\ decoded_line = Some([s |-> raw_line, ascii28 |-> FALSE,
                            panicked |-> FALSE])

\* decode_line converts the line from ISO-8859-1: the automaton rejected
\* it, or from_utf8 did.
TakesFallback(line) ==
    ~collect_line_info(line).valid_utf8 \/ ~from_utf8(line)

\* The two-byte rule for one byte, as the claim states it (b & 0x3F is
\* b % 64, and | 0x80 adds 128 to a number below 64).
TwoByteRule(b) ==
    IF b < 128 THEN <<b>>
    ELSE <<194 + (IF b > 191 THEN 1 ELSE 0), (b % 64) + 128>>

\* C22: whenever decode_line takes the fallback, the text is the two-byte
\* rule applied to each input byte in order; every single byte b of
\* 0xC0..0xFF decodes to the UTF-8 encoding of code point b.
C22_FallbackTwoByteRule ==
    /\ (decoded_line # None /\ TakesFallback(raw_line)) =>
           Unwrap(decoded_line).s
               = Concat([i \in 1..Len(raw_line) |-> TwoByteRule(raw_line[i])])
    /\ raw_line = << >> =>
           \A b \in 192..255 :
               /\ TakesFallback(<<b>>)
               /\ decode_line(<<b>>).s = encode_utf8(b)
               /\ decode_line(<<b>>).s = TwoByteRule(b)

\* "A", 0xE1, 0x80 ends inside a sequence and 0xE1 came out as U+00E1.
C22_Witness ==
    /\ raw_line = <<65, 225, 128>>
    /\ decoded_line # None
    /\ TakesFallback(raw_line)
    /\ Unwrap(decoded_line).s = <<65>> \o encode_utf8(225) \o <<194, 128>>

\* The positions of byte 28 in a text.
Separators(s) == {i \in 1..Len(s) : s[i] = 28}

\* The text decode_line made of line has its separators where line has
\* them, counting the bytes each byte of line was turned into.
KeepsSeparators(line, r) ==
    /\ Cardinality(Separators(r.s)) = Cardinality(Separators(line))
    /\ \A i \in Separators(line) :
           \E j \in Separators(r.s) :
               Cardinality(Separators(SubSeq(r.s, 1, j)))
                   = Cardinality(Separators(SubSeq(line, 1, i)))

\* C23: decode_line's flag is true iff the input holds byte 28 at any
\* position, whether the text is the input or its conversion; the text
\* keeps every byte 28 of the input and holds no other.
C23_SeparatorDetection ==
    decoded_line # None =>
        /\ Unwrap(decoded_line).ascii28 = (Separators(raw_line) # {})
        /\ KeepsSeparators(raw_line, Unwrap(decoded_line))

\* A line with a byte 28 after a byte the automaton rejects: the fallback
\* was taken, the flag is set and the separator is in the text.
C23_Witness ==
    /\ raw_line = <<255, 28, 65>>
    /\ decoded_line = Some([s |-> <<195, 191, 28, 65>>, ascii28 |-> TRUE,
                            panicked |-> FALSE])

(***************************************************************************)
(* fec/parser.rs: parse_fec and parse_line, run from main (main.rs 66-70)  *)
(* on an input held in memory; reading it never fails.                     *)
(***************************************************************************)
\* The texts of the input files of parse_fec.
BEGIN1 == <<91, 98, 101, 103, 105, 110, 32, 116, 101, 120, 116, 93>>
BEGIN2 == <<91, 98, 101, 103, 105, 110, 116, 101, 120, 116, 93>>
END1 == <<91, 101, 110, 100, 32, 116, 101, 120, 116, 93>>
END2 == <<91, 101, 110, 100, 116, 101, 120, 116, 93>>
VERSION == <<118, 101, 114, 115, 105, 111, 110>>
HDR_CSV == <<72, 68, 82, 44, 70, 69, 67, 10>>
HDR_FS == <<72, 68, 82, 28, 70, 69, 67, 10>>
LINE_CSV == <<97, 44, 98, 10>>
LINE_FS == <<97, 28, 98, 10>>
LINE_BLANK == <<32, 10>>
LINE_BEGIN == <<91, 66, 69, 71, 73, 78, 32, 84, 69, 88, 84, 93, 10>>
LINE_VERSION == <<49, 44, 86, 101, 114, 115, 105, 111, 110, 10>>

\* BufRead::read_until(b'\n') (lines 35-37, 50-52): the bytes up to and
\* including the first '\n', or all of them when there is none.
read_until(input, byte) ==
    IF \E i \in 1..Len(input) : input[i] = byte
    THEN Take(input, CHOOSE i \in 1..Len(input) :
                        /\ input[i] = byte
                        /\ \A j \in 1..(i - 1) : input[j] # byte)
    ELSE input

\* str::trim (line 71) for text whose only white space is ASCII: tab,
\* '\n', vertical tab, form feed, '\r' and space.
Whitespace == {9, 10, 11, 12, 13, 32}
Inked(s) == {i \in 1..Len(s) : s[i] \notin Whitespace}
trim(s) ==
    IF Inked(s) = {} THEN << >>
    ELSE SubSeq(s, CHOOSE i \in Inked(s) : \A j \in Inked(s) : i <= j,
                CHOOSE i \in Inked(s) : \A j \in Inked(s) : j <= i)

\* str::to_lowercase on ASCII letters
to_lowercase(s) ==
    [i \in 1..Len(s) |-> IF s[i] >= 65 /\ s[i] <= 90 THEN s[i] + 32 ELSE s[i]]

\* str::contains
contains(s, pattern) ==
    \E i \in 0..(Len(s) - Len(pattern)) :
        SubSeq(s, i + 1, i + Len(pattern)) = pattern

\* f99_text_start and f99_text_end (fec/context.rs 44-45) matched against
\* a trimmed line: (?i)^\s*\[BEGIN ?TEXT\]\s*$ and the same with END.
f99_text_start(trimmed_line) ==
    to_lowercase(trimmed_line) \in {BEGIN1, BEGIN2}
f99_text_end(trimmed_line) ==
    to_lowercase(trimmed_line) \in {END1, END2}

RECURSIVE split(_, _, _, _)
\* str::split(delimiter) from position i, with the piece under way.
split(line, delimiter, i, piece) ==
    IF i > Len(line) THEN <<piece>>
    ELSE IF line[i] = delimiter
    THEN <<piece>> \o split(line, delimiter, i + 1, << >>)
    ELSE split(line, delimiter, i + 1, piece \o <<line[i]>>)

\* parse_with_delimiter (lines 124-126)
parse_with_delimiter(line, delimiter) == split(line, delimiter, 1, << >>)

\* Lines 92-97: the fields of a trimmed line.
ParseFields(use_ascii28, trimmed_line) ==
    IF use_ascii28 THEN parse_with_delimiter(trimmed_line, 28)
    ELSE parse_csv_line(trimmed_line)

\* Lines 99-106: the version found in the second field.
NoteVersion(f, flds) ==
    IF Len(flds) >= 2 /\ contains(to_lowercase(flds[2]), VERSION)
    THEN [f EXCEPT !.version = Some(flds[2]),
                   !.version_length = Len(flds[2])]
    ELSE f

\* The run after buffer has been read and decoded with the flag ascii28
\* (lines 56-57): the context's flag is the line's.
AfterDecode(f, buffer, ascii28) ==
    [f EXCEPT !.input = Drop_(f.input, Len(buffer)),
              !.read = Append(@, buffer),
              !.use_ascii28 = ascii28]

\* The history of a line split with the context's flag.
NoteSplit(f, ascii28) ==
    [f EXCEPT !.splits = Append(@, [ascii28 |-> ascii28,
                                    delimiter |-> IF f.use_ascii28 THEN 28
                                                  ELSE Comma])]

\* The input files: no byte at all, or a header line and up to MaxLines
\* lines, each ended by '\n'.
Headers == {HDR_CSV, HDR_FS}
BodyLines == {LINE_CSV, LINE_FS, LINE_BLANK, LINE_BEGIN, LINE_VERSION}

RECURSIVE Bodies(_)
Bodies(n) ==
    IF n = 0 THEN {<< >>}
    ELSE Bodies(n - 1)
             \cup {body \o l : body \in Bodies(n - 1), l \in BodyLines}

FecInputs == {<< >>} \cup {h \o body : h \in Headers, body \in Bodies(MaxLines)}

\* parse_fec lines 31-43: the header line.
ReadHeader ==
    /\ fec.at = "header" /\ pc = "live"
    /\ fec' = IF fec.input = << >>
              THEN [fec EXCEPT !.at = "No data to parse."]
              ELSE [AfterDecode(fec, read_until(fec.input, LF),
                                decode_line(read_until(fec.input, LF)).ascii28)
                       EXCEPT !.at = "lines",
                              !.header_flag =
                                  Some(decode_line(read_until(fec.input, LF))
                                           .ascii28)]
    /\ UNCHANGED <<config, ctx, world, pc, history, csv_fields, csv_parsed,
                   raw_line, decoded_line>>

\* parse_fec lines 53-55: end of input.
EndOfInput ==
    /\ fec.at = "lines" /\ pc = "live" /\ fec.input = << >>
    /\ fec' = [fec EXCEPT !.at = "done"]
    /\ UNCHANGED <<config, ctx, world, pc, history, csv_fields, csv_parsed,
                   raw_line, decoded_line>>

\* A faulty variant of lines 108-111 that goes on after a failed write.
WriteFields_goon(f, flds) ==
    \E failAt \in FailPoints(write_csv_record(Self(0), Name_output, flds).io) :
        /\ CommitCtx(write_csv_record(Self(failAt), Name_output, flds))
        /\ Resume(write_csv_record(Self(failAt), Name_output, flds))
        /\ NoteWrite(write_csv_record(Self(failAt), Name_output, flds),
                     OutputStream, CsvRecord(flds), FALSE)
        /\ fec' = [f EXCEPT !.records = Append(@, flds)]
        /\ UNCHANGED <<config, csv_fields, csv_parsed, raw_line, decoded_line>>

\* parse_line lines 108-111: the fields written as a record; the run ends
\* when the write fails.
WriteFields(f, flds) ==
    \E failAt \in FailPoints(write_csv_record(Self(0), Name_output, flds).io) :
        /\ CommitCtx(write_csv_record(Self(failAt), Name_output, flds))
        /\ Resume(write_csv_record(Self(failAt), Name_output, flds))
        /\ NoteWrite(write_csv_record(Self(failAt), Name_output, flds),
                     OutputStream, CsvRecord(flds), FALSE)
        /\ fec' = IF write_csv_record(Self(failAt), Name_output, flds).err
                       # NoErr
                  THEN [f EXCEPT !.at = "Failed to write fields to output",
                                 !.records = Append(@, flds)]
                  ELSE [f EXCEPT !.records = Append(@, flds)]
        /\ UNCHANGED <<config, csv_fields, csv_parsed, raw_line, decoded_line>>

\* A faulty parse_line that returns at once from a begin-text line.
parse_line_skiptext(f, trimmed_line) ==
    IF f99_text_start(trimmed_line) \/ trimmed_line = << >>
    THEN /\ fec' = f
         /\ UNCHANGED <<config, ctx, world, pc, history, csv_fields,
                        csv_parsed, raw_line, decoded_line>>
    ELSE WriteFields(NoteVersion(NoteSplit(f, f.use_ascii28),
                                 ParseFields(f.use_ascii28, trimmed_line)),
                     ParseFields(f.use_ascii28, trimmed_line))

\* A faulty parse_line that does not skip an empty line.
parse_line_noskip(f, trimmed_line) ==
    IF f99_text_start(trimmed_line)
    THEN /\ fec' = [f EXCEPT !.at = IF f99_text_end(trimmed_line)
                                    THEN "lines" ELSE "hung"]
         /\ UNCHANGED <<config, ctx, world, pc, history, csv_fields,
                        csv_parsed, raw_line, decoded_line>>
    ELSE WriteFields(NoteVersion(NoteSplit(f, f.use_ascii28),
                                 ParseFields(f.use_ascii28, trimmed_line)),
                     ParseFields(f.use_ascii28, trimmed_line))

\* parse_line (lines 70-119) for the run f, whose context has the flag of
\* the line: a begin-text line waits for an end marker in a loop that
\* reads nothing, a blank line is skipped, any other line is split and
\* written.
parse_line(f, trimmed_line) ==
    IF f99_text_start(trimmed_line)
    THEN /\ fec' = [f EXCEPT !.at = IF f99_text_end(trimmed_line)
                                    THEN "lines" ELSE "hung"]
         /\ UNCHANGED <<config, ctx, world, pc, history, csv_fields,
                        csv_parsed, raw_line, decoded_line>>
    ELSE IF trimmed_line = << >>
    THEN /\ fec' = f
         /\ UNCHANGED <<config, ctx, world, pc, history, csv_fields,
                        csv_parsed, raw_line, decoded_line>>
    ELSE WriteFields(NoteVersion(NoteSplit(f, f.use_ascii28),
                                 ParseFields(f.use_ascii28, trimmed_line)),
                     ParseFields(f.use_ascii28, trimmed_line))

\* parse_fec lines 48-59: one more line read, decoded and parsed.
ReadLine ==
    /\ fec.at = "lines" /\ pc = "live" /\ fec.input # << >>
    /\ parse_line(AfterDecode(fec, read_until(fec.input, LF),
                              decode_line(read_until(fec.input, LF)).ascii28),
                  trim(decode_line(read_until(fec.input, LF)).s))

\* main.rs line 70: flush_all once parse_fec has returned Ok.
FinalFlushAll == fec.at = "done" /\ ~flushed /\ FlushAll

InitParse ==
    /\ Construct
    /\ fallible = FALSE /\ ~custom_write_fn /\ ~custom_line_fn
    /\ buffer_size = MaxCap
    /\ csv_fields = << >> /\ csv_parsed = None
    /\ raw_line = << >> /\ decoded_line = None
    /\ \E input \in FecInputs : fec = FecRun("header", input)

NextParse ==
    \/ ReadHeader
    \/ ReadLine
    \/ EndOfInput
    \/ FinalFlushAll

SpecParse == InitParse /\ [][NextParse]_vars

\* C24: every line is split with the delimiter the header line's flag
\* calls for: the separator 28 when the header line held one, the comma
\* otherwise, whatever the line's own flag.
C24_DelimiterFollowsHeader ==
    \A i \in 1..Len(fec.splits) :
        fec.splits[i].delimiter
            = (IF fec.header_flag = Some(TRUE) THEN 28 ELSE Comma)

(***************************************************************************)
(* The files on disk.                                                      *)
(***************************************************************************)
\* "a.b", a stream name with a dot
Name_dotted == <<97, 46, 98>>

\* The path the claim gives the file of a stream:
\* <output_root>/<filing_identifier>/<name with '/' as '-'>.<extension>.
ClaimedPath(key) ==
    output_directory \o <<Slash>> \o filing_id \o <<Slash>>
        \o replace(key[1], Slash, Hyphen) \o <<Dot>>
        \o trim_start_matches(key[2], Dot)

\* C25: with disk writing enabled the file of a stream is at the claimed
\* path and holds what it held before the run (nothing, in these runs)
\* followed by exactly the bytes flushed for that stream, in order.
C25_FileHoldsItsStream ==
    /\ \A key \in DOMAIN open_files :
           open_files[key].file # None =>
               /\ Unwrap(open_files[key].file).path = ClaimedPath(key)
               /\ disk[ClaimedPath(key)] = Delivered(file_calls, key)
    /\ (pc = "live" /\ write_to_disk) =>
           \A key \in ProbeKeys \cup {<<Name_dotted, CSV_EXTENSION>>} :
               key \notin DOMAIN open_files =>
                   Unwrap(get_file_entry(Self(0), key[1], key[2])
                              .open_files[key].file).path = ClaimedPath(key)

\* The entries of the stream map that have a file.
OnDisk == {key \in DOMAIN open_files : open_files[key].file # None}

\* C26: no two entries of the stream map reference the same handle or the
\* same file on disk: distinct keys never resolve to the same path.
C26_FilesAreExclusive ==
    \A k1, k2 \in OnDisk :
        k1 # k2 =>
            /\ Unwrap(open_files[k1].file).fd # Unwrap(open_files[k2].file).fd
            /\ Unwrap(open_files[k1].file).path
                   # Unwrap(open_files[k2].file).path

(***************************************************************************)
(* The two sinks.                                                          *)
(***************************************************************************)
\* C27: a flushed chunk goes to the byte-sink iff one is registered and to
\* the stream's file iff disk writing is enabled, and no file is opened
\* when it is disabled; the file never receives a chunk before the
\* byte-sink (when the file write fails the byte-sink has the chunk
\* already), and in a run without failure both have received the same
\* chunks, which with the buffer make up what was written.
C27_SinksAreIndependent ==
    /\ ~custom_write_fn => sink_calls = EmptyMap
    /\ ~write_to_disk =>
           /\ file_calls = EmptyMap /\ disk = EmptyMap /\ next_fd = 0
           /\ \A key \in DOMAIN open_files : open_files[key].file = None
    /\ write_to_disk =>
           \A key \in DOMAIN open_files : open_files[key].file # None
    /\ \A key \in DOMAIN open_files :
        /\ (custom_write_fn /\ write_to_disk) =>
            /\ Len(Chunks(file_calls, key)) <= Len(Chunks(sink_calls, key))
            /\ nfaults = 0 => Chunks(file_calls, key) = Chunks(sink_calls, key)
        /\ (nfaults = 0 /\ Returned /\ custom_write_fn) =>
               Delivered(sink_calls, key) \o BufferOf(open_files, key)
                   = written[key]
        /\ (nfaults = 0 /\ Returned /\ write_to_disk) =>
               Delivered(file_calls, key) \o BufferOf(open_files, key)
                   = written[key]
    /\ (pc = "live" /\ custom_write_fn) =>
           \A keys \in Orders(DOMAIN open_files) :
           \A failAt \in 1..flush_all(Self(0), keys).io :
               flush_all(Self(failAt), keys).cause = "Failed to write to file"
                   => NewCount(flush_all(Self(failAt), keys).sink_calls,
                               sink_calls)
                          = NewCount(flush_all(Self(failAt), keys).file_calls,
                                     file_calls) + 1

\* Both sinks are present and have received the same two chunks of a
\* stream in a run without failure; a third is still in the buffer.
C27_Witness ==
    /\ custom_write_fn /\ write_to_disk /\ nfaults = 0 /\ pc = "live"
    /\ \E key \in DOMAIN open_files :
         /\ Len(Chunks(sink_calls, key)) = 2
         /\ Chunks(file_calls, key) = Chunks(sink_calls, key)
         /\ BufferOf(open_files, key) # NoBytes
         /\ disk[Unwrap(open_files[key].file).path]
                = Delivered(sink_calls, key)

(***************************************************************************)
(* The turns of write_bytes's loop.                                        *)
(***************************************************************************)
RECURSIVE Turns(_, _, _, _)

\* Lines 292-302 of a turn once BufferFile::write_bytes has returned r: what
\* the turn started with and left over, what the buffer held before it and
\* what it flushed (0 when it did not flush), then the turns that follow.
TurnOf(g, r, filename, extension, overflow) ==
    <<[before |-> Len(overflow), after |-> Len(r.leftover),
       held |-> g.open_files[Unwrap(g.entry)].buffer_file.position,
       chunk |-> IF r.leftover = NoBytes THEN 0 ELSE Len(r.bf.buffer)]>>
    \o (IF r.leftover = NoBytes THEN << >>
        ELSE Turns(flush_buffer(
                       [g EXCEPT !.open_files[Unwrap(g.entry)].buffer_file
                                     = r.bf],
                       filename, extension),
                   filename, extension, r.leftover))

TurnIn(g, filename, extension, overflow) ==
    TurnOf(g, BufferFile_write_bytes(
                  g.open_files[Unwrap(g.entry)].buffer_file, overflow),
           filename, extension, overflow)

\* The turns of the while loop of lines 291-303 when no sink fails and the
\* capacity is at least 1.
Turns(s, filename, extension, overflow) ==
    IF overflow = NoBytes THEN << >>
    ELSE TurnIn(get_file_entry(s, filename, extension),
                filename, extension, overflow)

Flushes(t) == Cardinality({i \in 1..Len(t) : t[i].chunk # 0})

\* The turns hand the remainder on and end with nothing left.
Chained(t) ==
    /\ t # << >>
    /\ t[Len(t)].after = 0
    /\ \A i \in 2..Len(t) : t[i].before = t[i - 1].after

\* What holds of the turns t of a write of n bytes that ended in s.
TerminatesWithin(t, n, s) ==
    /\ Ok(s)
    /\ Chained(t) /\ t[1].before = n
    /\ Flushes(t) <= CeilDiv(n, buffer_size)
    /\ Len(t) <= CeilDiv(n, buffer_size) + 1
    /\ \A i \in 1..Len(t) : t[i].chunk \in {0, buffer_size}
    /\ OnlyFullChunks(s)
    /\ custom_write_fn => NewCount(s.sink_calls, sink_calls) = Flushes(t)
    /\ \A i \in 1..Len(t) :
        \/ t[i].after < t[i].before
        \/ /\ i = 1 /\ t[i].held = buffer_size
           /\ t[i].after = t[i].before /\ t[i].chunk = buffer_size

\* C28: with a capacity C of at least 1, write_bytes of n bytes returns; it
\* flushes at most ceil(n/C) times and each flush takes exactly C bytes out
\* of the buffer; every turn of its loop shortens the remainder, except a
\* first turn that finds the buffer full: that one flushes the buffer and
\* leaves the remainder as it was, so there are at most ceil(n/C)+1 turns.
C28_WriteBytesTerminates ==
    buffer_size >= 1 =>
        /\ pc # "hung"
        /\ pc = "live" =>
               \A a \in StringWrites :
                   TerminatesWithin(Turns(Self(0), a[1], a[2], a[3]),
                                    Len(a[3]),
                                    write_bytes(Self(0), a[1], a[2], a[3]))

\* Capacity 1, "hi" written: the sink has "h" and the buffer is full with
\* "i"; writing " there!" now takes 8 turns and 7 flushes, and its first
\* turn takes no byte.
C28_Witness ==
    /\ buffer_size = 1 /\ custom_write_fn /\ pc = "live"
    /\ <<Name_slash, CSV_EXTENSION>> \in DOMAIN open_files
    /\ Delivered(sink_calls, <<Name_slash, CSV_EXTENSION>>) = <<104>>
    /\ BufferOf(open_files, <<Name_slash, CSV_EXTENSION>>) = <<105>>
    /\ Len(Turns(Self(0), Name_slash, CSV_EXTENSION, Txt_there)) = 8
    /\ Flushes(Turns(Self(0), Name_slash, CSV_EXTENSION, Txt_there)) = 7
    /\ Turns(Self(0), Name_slash, CSV_EXTENSION, Txt_there)[1].after = 7

\* C28 as stated: every turn of the loop shortens the remainder.
C28_EveryTurnShrinks ==
    (buffer_size >= 1 /\ pc = "live") =>
        \A a \in StringWrites :
            \A i \in 1..Len(Turns(Self(0), a[1], a[2], a[3])) :
                Turns(Self(0), a[1], a[2], a[3])[i].after
                    < Turns(Self(0), a[1], a[2], a[3])[i].before

(***************************************************************************)
(* The states of the automaton during a scan.                              *)
(***************************************************************************)
RECURSIVE StatesFrom(_, _, _)
\* The value of collect_line_info's state (line 94) after each byte from
\* position i on.
StatesFrom(line, i, state) ==
    IF i > Len(line) THEN << >>
    ELSE <<NextState(state, line[i])>>
             \o StatesFrom(line, i + 1, NextState(state, line[i]))

States(line) == StatesFrom(line, 1, UTF8_ACCEPT)

\* The table's states and the classes it gives to bytes.
TableStates == 0..8
TableClasses == 0..15

\* Once the scan is in the reject state it stays there.
Sticky(t) ==
    \A i \in 1..Len(t) :
        t[i] = UTF8_REJECT => \A j \in i..Len(t) : t[j] = UTF8_REJECT

\* What the scan of line returned counts every byte of it, before and after
\* a rejected one.
CountsEveryByte(line, info) ==
    /\ ~info.panicked
    /\ info.length = Len(line)
    /\ info.ascii28 = (\E i \in 1..Len(line) : line[i] = 28)
    /\ info.ascii_only = (\A i \in 1..Len(line) : line[i] <= 127)
    /\ info.valid_utf8
           = (\A i \in 1..Len(line) : States(line)[i] # UTF8_REJECT)

NeverRejected(line) ==
    \A i \in 1..Len(line) : States(line)[i] # UTF8_REJECT
FinalState(line) ==
    IF line = << >> THEN UTF8_ACCEPT ELSE States(line)[Len(line)]

\* C30: a line the automaton never rejected is well-formed UTF-8 exactly
\* when the scan ended in the accept state, and then decode_line returns it
\* as it is; a line that ends inside a multi-byte sequence (never rejected,
\* not ended in accept) is not well-formed UTF-8, and decode_line returns
\* its conversion from ISO-8859-1 instead.
C30_VerbatimWhenScanEndsInAccept ==
    (decoded_line # None /\ NeverRejected(raw_line)) =>
        /\ collect_line_info(raw_line).valid_utf8
        /\ ~Unwrap(decoded_line).panicked
        /\ from_utf8(raw_line) = (FinalState(raw_line) = UTF8_ACCEPT)
        /\ FinalState(raw_line) = UTF8_ACCEPT =>
               Unwrap(decoded_line).s = raw_line
        /\ FinalState(raw_line) # UTF8_ACCEPT =>
               /\ Unwrap(decoded_line).s = iso_8859_1_to_utf8(raw_line)
               /\ Unwrap(decoded_line).s # raw_line

\* The first three bytes of a four-byte sequence have been decoded: the
\* scan ended in neither accept nor reject, and the text is the conversion
\* of the three bytes.
C30_Witness ==
    /\ raw_line = <<240, 144, 128>> /\ decoded_line # None
    /\ NeverRejected(raw_line)
    /\ FinalState(raw_line) \notin {UTF8_ACCEPT, UTF8_REJECT}
    /\ Unwrap(decoded_line).s = <<195, 176, 194, 144, 194, 128>>

\* C30 as stated: a line the automaton never rejected is well-formed UTF-8
\* and comes back as it is.
C30_NeverRejectedIsVerbatim ==
    (decoded_line # None /\ NeverRejected(raw_line)) =>
        /\ from_utf8(raw_line)
        /\ Unwrap(decoded_line).s = raw_line

\* The automaton takes line for well-formed: it never rejected and ended in
\* the accept state.
Accepted(line) == NeverRejected(line) /\ FinalState(line) = UTF8_ACCEPT

\* decode_line's answer r for line is the line itself exactly when the line
\* is well-formed UTF-8, which is when the automaton accepts it, and else
\* its conversion from ISO-8859-1, which differs from it.
FallbackIffIllFormed(line, r) ==
    /\ ~r.panicked
    /\ from_utf8(line) = Accepted(line)
    /\ from_utf8(line) => r.s = line
    /\ ~from_utf8(line) => r.s = iso_8859_1_to_utf8(line) /\ r.s # line

\* Lines that are not well-formed, one or more of every kind: a stray
\* continuation byte, truncated sequences, overlong encodings, surrogates
\* and code points above U+10FFFF.
IllFormed ==
    {<<128>>, <<191, 65>>, <<194>>, <<225, 128>>, <<240, 144, 128>>,
     <<192, 128>>, <<193, 191>>, <<224, 128, 128>>, <<224, 159, 191>>,
     <<240, 128, 128, 128>>, <<240, 143, 191, 191>>,
     <<237, 160, 128>>, <<237, 191, 191>>,
     <<244, 144, 128, 128>>, <<245, 128, 128, 128>>, <<255>>}

\* Well-formed lines: the first and the last code point of every length.
WellFormed ==
    {<<0>>, <<127>>, <<194, 128>>, <<223, 191>>, <<224, 160, 128>>,
     <<237, 159, 191>>, <<238, 128, 128>>, <<239, 191, 191>>,
     <<240, 144, 128, 128>>, <<244, 143, 191, 191>>}

\* C31: decode_line converts a line from ISO-8859-1 when it is not
\* well-formed UTF-8 and only then; the table-driven scan and the reference
\* predicate agree on which lines are well-formed.  (Checked for the line
\* that was decoded, and for the listed well-formed and ill-formed lines
\* alone and with a line of at most one byte before or after them.)
C31_FallbackExactlyWhenIllFormed ==
    /\ decoded_line # None =>
           FallbackIffIllFormed(raw_line, Unwrap(decoded_line))
    /\ Len(raw_line) <= 1 =>
           \A good \in WellFormed :
               /\ from_utf8(good)
               /\ decode_line(good).s = good
               /\ FallbackIffIllFormed(raw_line \o good,
                                       decode_line(raw_line \o good))
               /\ FallbackIffIllFormed(good \o raw_line,
                                       decode_line(good \o raw_line))
    /\ Len(raw_line) <= 1 =>
           \A bad \in IllFormed :
               /\ ~from_utf8(bad)
               /\ decode_line(bad).s = iso_8859_1_to_utf8(bad)
               /\ decode_line(bad).s # bad
               /\ FallbackIffIllFormed(raw_line \o bad,
                                       decode_line(raw_line \o bad))
               /\ FallbackIffIllFormed(bad \o raw_line,
                                       decode_line(bad \o raw_line))

\* A surrogate, 0xED 0xA0 0x80, has been decoded: the automaton rejected
\* its second byte and the text is the conversion of the three bytes.
C31_Witness ==
    /\ raw_line = <<237, 160, 128>> /\ decoded_line # None
    /\ ~from_utf8(raw_line)
    /\ States(raw_line)[2] = UTF8_REJECT
    /\ Unwrap(decoded_line).s = <<195, 173, 194, 160, 194, 128>>

(***************************************************************************)
(* Independence of the streams.                                            *)
(***************************************************************************)
\* The write of bytes to key that ended in s left the buffer of every other
\* stream as it was, called the byte-sink under key only, and handed it
\* only bytes that key's buffer held or that the write brought.
OnlyTouches(s, key, bytes) ==
    /\ \A k \in DOMAIN s.open_files \ {key} :
           /\ k \in DOMAIN open_files
           /\ s.open_files[k].buffer_file = open_files[k].buffer_file
    /\ \A k \in (DOMAIN s.sink_calls \cup DOMAIN sink_calls) \ {key} :
           Chunks(s.sink_calls, k) = Chunks(sink_calls, k)
    /\ s.n_sink = Len(NewChunks(s.sink_calls, sink_calls, key))
    /\ IsPrefix(Concat(NewChunks(s.sink_calls, sink_calls, key)),
                BufferOf(open_files, key) \o bytes)

\* C32: a write to a stream, with the overflow flushes it makes, changes
\* the buffer of no other stream and calls the byte-sink under no other
\* name; whatever the order of the writes to several streams, what the
\* byte-sink has received under a key is a prefix of what was written to
\* that key.
C32_StreamsAreIndependent ==
    /\ (custom_write_fn /\ Returned) =>
           \A key \in DOMAIN sink_calls :
               /\ key \in DOMAIN written
               /\ IsPrefix(Delivered(sink_calls, key), written[key])
    /\ (pc = "live" /\ ~local_mode) =>
        /\ \A a \in StringWrites :
               OnlyTouches(write_string(Self(0), a[1], a[2], a[3]),
                           <<a[1], a[2]>>, a[3])
        /\ \A a \in CharWrites :
               OnlyTouches(write_char(Self(0), a[1], a[2], a[3]),
                           <<a[1], a[2]>>, encode_utf8(a[3]))
        /\ \A a \in RecordWrites :
               OnlyTouches(write_csv_record(Self(0), a[1], a[2]),
                           <<a[1], trim_start_matches(CSV_EXTENSION, Dot)>>,
                           CsvRecord(a[2]))

\* "hi" went to "a-b" and then " there!" to "a/b": the second write flushed
\* twice under its own key while the buffer of "a-b" still holds "hi" and
\* the byte-sink has had nothing under that name.
C32_Witness ==
    /\ custom_write_fn /\ buffer_size = 3 /\ pc = "live" /\ ~flushed
    /\ last_file_key = Some(<<Name_slash, CSV_EXTENSION>>)
    /\ BufferOf(open_files, <<Name_hyphen, CSV_EXTENSION>>) = Txt_hi
    /\ Chunks(sink_calls, <<Name_hyphen, CSV_EXTENSION>>) = << >>
    /\ Chunks(sink_calls, <<Name_slash, CSV_EXTENSION>>)
           = << <<32, 116, 104>>, <<101, 114, 101>> >>
    /\ BufferOf(open_files, <<Name_slash, CSV_EXTENSION>>) = <<33>>

(***************************************************************************)
(* The run of parse_fec.                                                   *)
(***************************************************************************)
\* The program has a next step to take: parse_fec is at its header or in
\* its loop, or it has returned Ok and main has flush_all before it
\* (main.rs 67-70).  This is the guard of NextParse.
Ready ==
    pc = "live"
        /\ (fec.at \in {"header", "lines"} \/ (fec.at = "done" /\ ~flushed))

\* The fair run: the program, which is sequential, takes its next step as
\* long as it has one (weak fairness of NextParse, with its guard written
\* out).
SpecParseFair ==
    SpecParse /\ ([]<>(~Ready) \/ []<><<NextParse>>_vars)

\* The input the run started with, and its lines, each with its '\n'.
WholeInput == Concat(fec.read) \o fec.input

RECURSIVE LinesFrom(_, _, _)
\* The lines of bytes from position i on, after the piece under way.
LinesFrom(bytes, i, piece) ==
    IF i > Len(bytes) THEN (IF piece = << >> THEN << >> ELSE <<piece>>)
    ELSE IF bytes[i] = LF
    THEN <<Append(piece, LF)>> \o LinesFrom(bytes, i + 1, << >>)
    ELSE LinesFrom(bytes, i + 1, Append(piece, bytes[i]))

LinesIn(bytes) == LinesFrom(bytes, 1, << >>)

\* parse_line takes the raw line for the begin-text marker.
BeginText(buffer) == f99_text_start(trim(decode_line(buffer).s))

\* A line after the header is a begin-text marker.
BeginTextAmong(lines) == \E i \in 2..Len(lines) : BeginText(lines[i])
HasBeginText(bytes) == BeginTextAmong(LinesIn(bytes))

\* parse_fec has returned.
Terminated ==
    fec.at \in {"done", "No data to parse.", "Failed to write fields to output"}

\* Reading goes line by line: what was read is the lines of the input, in
\* order, each once.
ReadsEachLineOnce ==
    fec.read \o LinesIn(fec.input) = LinesIn(WholeInput)

\* parse_line waits in its loop exactly when the line read last is a
\* begin-text marker, and that line is the last one read.
WaitsAtBeginText ==
    /\ fec.at = "hung" <=>
           (Len(fec.read) >= 2 /\ BeginText(fec.read[Len(fec.read)]))
    /\ \A i \in 2..Len(fec.read) :
           BeginText(fec.read[i]) => i = Len(fec.read)
    /\ fec.at = "hung" => ~f99_text_end(trim(decode_line(
                                            fec.read[Len(fec.read)]).s))
    /\ fec.at = "done" =>
           /\ fec.input = << >> /\ ~HasBeginText(WholeInput)
           /\ fec.read = LinesIn(WholeInput)

\* C33: a line after the header that matches the begin-text marker makes
\* parse_line wait in a loop that reads nothing: the run stays where it is
\* for ever, with the input after that line unread, and parse_fec never
\* comes to the end of the input; on an input without such a line
\* parse_fec returns, having read every line once.
C33_BeginTextNeverReturns ==
    /\ [](ReadsEachLineOnce /\ WaitsAtBeginText)
    /\ [][fec.at = "hung" => fec' = fec]_vars
    /\ (fec.at = "header" /\ ~HasBeginText(WholeInput)) ~> Terminated
    /\ (fec.at = "header" /\ HasBeginText(WholeInput)) => [](~Terminated)

\* The run waits at a begin-text line that came first after the header,
\* with a line of the input still unread.
C33_Witness ==
    /\ fec.at = "hung"
    /\ fec.read = <<HDR_CSV, LINE_BEGIN>>
    /\ fec.input = LINE_CSV
    /\ fec.records = << >>

\* The raw line holds something after it is decoded and trimmed.
NonBlank(buffer) == trim(decode_line(buffer).s) # << >>

\* The fields of a raw line, decoded and split on its own.
FieldsOf(buffer) ==
    ParseFields(decode_line(buffer).ascii28, trim(decode_line(buffer).s))

\* The records the lines call for: one for every line after the first that
\* is not blank, in the order of the lines.
RecordsFor(lines) ==
    [i \in 1..Len(SelectSeq(Tail(lines), NonBlank)) |->
        FieldsOf(SelectSeq(Tail(lines), NonBlank)[i])]

RECURSIVE RecordBytes(_)
\* The bytes of the records, one after the other.
RecordBytes(records) ==
    IF records = << >> THEN << >>
    ELSE CsvRecord(Head(records)) \o RecordBytes(Tail(records))

\* C34: on an input without a begin-text line, parse_fec has issued, for
\* the lines read so far, one write_csv_record to the stream "output" for
\* every line after the first that is not blank once trimmed, in the order
\* of the lines and each with the fields of its own line; the header and
\* the blank lines make no write; an empty input ends in "No data to
\* parse." with the writer as it was constructed.
C34_OneRecordPerLineInOrder ==
    /\ ~HasBeginText(WholeInput) =>
           /\ fec.read # << >> => fec.records = RecordsFor(fec.read)
           /\ nwrites = Len(fec.records)
           /\ DOMAIN written \subseteq {OutputStream}
           /\ fec.records # << >> =>
                  written[OutputStream] = RecordBytes(fec.records)
           /\ Len(fec.read) <= 1 => (open_files = EmptyMap /\ nwrites = 0)
    /\ fec.at = "No data to parse." =>
           /\ WholeInput = << >> /\ fec.records = << >>
           /\ open_files = EmptyMap /\ last_file_key = None
           /\ nwrites = 0 /\ written = EmptyMap
           /\ sink_calls = EmptyMap /\ file_calls = EmptyMap
           /\ disk = EmptyMap /\ next_fd = 0

\* A header, a blank line and the line "1,Version" have been read to the
\* end: one record, that of the third line, was written.
C34_Witness ==
    /\ fec.at = "done"
    /\ fec.read = <<HDR_CSV, LINE_BLANK, LINE_VERSION>>
    /\ fec.records = << <<<<49>>, <<86, 101, 114, 115, 105, 111, 110>>>> >>
    /\ nwrites = 1
    /\ written[OutputStream] = <<49, 44, 86, 101, 114, 115, 105, 111, 110, 10>>

(***************************************************************************)
(* The conversion run of main (main.rs 43-70) with a disk that can fail.   *)
(***************************************************************************)
\* main returns (after flush_all, or with the error of parse_fec) and the
\* writer is dropped.
Teardown ==
    /\ \/ fec.at \in {"No data to parse.", "Failed to write fields to output"}
       \/ fec.at = "done" /\ flushed
    /\ \E debug_assertions \in BOOLEAN : DropWriter(debug_assertions)

\* The writer as main builds it with --write-to-disk: no callbacks.
InitParseFaulty ==
    /\ Construct
    /\ fallible = TRUE /\ write_to_disk
    /\ ~custom_write_fn /\ ~custom_line_fn
    /\ buffer_size = MaxCap
    /\ csv_fields = << >> /\ csv_parsed = None
    /\ raw_line = << >> /\ decoded_line = None
    /\ \E input \in FecInputs : fec = FecRun("header", input)

NextParseFaulty ==
    \/ ReadHeader
    \/ ReadLine
    \/ EndOfInput
    \/ FinalFlushAll
    \/ Teardown

SpecParseFaulty == InitParseFaulty /\ [][NextParseFaulty]_vars

\* Every chunk log of now is kept as the beginning of the log of next, and
\* so is every file.
NoRollback ==
    /\ \A k \in DOMAIN file_calls :
           /\ k \in DOMAIN file_calls'
           /\ IsPrefix(file_calls[k], file_calls'[k])
    /\ \A path \in DOMAIN disk :
           /\ path \in DOMAIN disk'
           /\ IsPrefix(disk[path], disk'[path])

\* C35: a write_csv_record that fails ends the run: parse_fec returns the
\* error with the failing line the last one read, whatever input is left;
\* the only step after it is the teardown of the writer, never main's
\* flush_all; and no step takes back what a file has received.
C35_WriteFailureAbortsRun ==
    /\ [](/\ (nfaults >= 1 /\ ~flushed) =>
                 fec.at = "Failed to write fields to output"
          /\ fec.at = "Failed to write fields to output" =>
                 /\ nfaults >= 1 /\ fec.records # << >>
                 /\ NonBlank(fec.read[Len(fec.read)])
                 /\ fec.records[Len(fec.records)]
                        = FieldsOf(fec.read[Len(fec.read)])
                 /\ pc \in {"live", "dropped", "panicked"})
    /\ [][/\ NoRollback
          /\ fec.at = "Failed to write fields to output" =>
                 /\ fec' = fec
                 /\ pc = "live" /\ pc' \in {"dropped", "panicked"}
                 /\ nwrites' = nwrites]_vars

\* The record "1,Version" was being written with a capacity of 3: the
\* first chunk reached the file, the write of the second failed, a line of
\* the input was never read, and after the teardown the file holds the
\* first chunk and no more.
C35_Witness ==
    /\ fec.at = "Failed to write fields to output"
    /\ pc = "dropped" /\ nfaults = 1
    /\ fec.read = <<HDR_CSV, LINE_VERSION>> /\ fec.input = LINE_CSV
    /\ Delivered(file_calls, OutputStream) = <<49, 44, 86>>
    /\ \E path \in DOMAIN disk : disk[path] = <<49, 44, 86>>

(***************************************************************************)
(* The chunk of a failed flush.                                            *)
(***************************************************************************)
\* The failures of a sink during a flush.
FlushFailures == {"custom_write_fn", "Failed to write to file"}

\* The log of the sink a failure c is of.
LogOf(c, sinks, files) == IF c = "custom_write_fn" THEN sinks ELSE files

\* The record s of a failed call as the next call starts on it.
Later(s) == [Again(s) EXCEPT !.err = NoErr, !.cause = NoErr, !.failAt = 0]

\* The call that ended in s lost a chunk of key to the sink of c: of the
\* bytes due to that sink, those it had received and those the buffer held
\* (with those the call brought), the sink has a beginning and not all, the
\* buffer holds none, and a later flush_all, in whatever order, hands the
\* sink nothing more under key.
ChunkLost(s, c, key, due) ==
    /\ BufferOf(s.open_files, key) = NoBytes
    /\ IsPrefix(Delivered(LogOf(c, s.sink_calls, s.file_calls), key), due)
    /\ Delivered(LogOf(c, s.sink_calls, s.file_calls), key)
           \o BufferOf(s.open_files, key) # due
    /\ \A keys \in Orders(DOMAIN s.open_files) :
           Chunks(LogOf(c, flush_all(Later(s), keys).sink_calls,
                           flush_all(Later(s), keys).file_calls), key)
               = Chunks(LogOf(c, s.sink_calls, s.file_calls), key)

\* What was due to the sink of c under key before a call that brings data.
Due(c, key, data) ==
    Delivered(LogOf(c, sink_calls, file_calls), key)
        \o BufferOf(open_files, key) \o data

\* The call that ended in s failed in a flush of key: the chunk is lost to
\* the sink that failed and, when that is the byte-sink, to the file too.
FlushFailureLoses(s, key, data) ==
    s.cause \in FlushFailures =>
        /\ ChunkLost(s, s.cause, key, Due(s.cause, key, data))
        /\ (s.cause = "custom_write_fn" /\ write_to_disk) =>
               ChunkLost(s, "Failed to write to file", key,
                         Due("Failed to write to file", key, data))

\* C36: flush_buffer clears the buffer before it calls a sink, so a chunk
\* whose byte-sink call or file write fails is in the buffer no more and
\* reaches the failing sink by no later flush_all or teardown: from then
\* on what that sink has received under the key, followed by the buffer,
\* is less than what was written to the stream.
C36_FailedChunkIsLost ==
    (pc = "live") =>
        /\ \A a \in FaultyStringWrites :
           \A failAt \in 1..write_string(Self(0), a[1], a[2], a[3]).io :
               FlushFailureLoses(write_string(Self(failAt), a[1], a[2], a[3]),
                                 <<a[1], a[2]>>, a[3])
        /\ \A keys \in Orders(DOMAIN open_files) :
           \A failAt \in 1..flush_all(Self(0), keys).io :
               flush_all(Self(failAt), keys).cause \in FlushFailures =>
                   \E key \in DOMAIN open_files :
                       /\ BufferOf(open_files, key) # NoBytes
                       /\ FlushFailureLoses(flush_all(Self(failAt), keys),
                                            key, NoBytes)

\* " there!" was written with a capacity of 3, flush_all failed at the
\* byte-sink with the last chunk, and the writer has been dropped since:
\* the byte-sink has " there", the buffer is empty, the "!" is gone.
C36_Witness ==
    /\ custom_write_fn /\ buffer_size = 3 /\ nfaults = 1 /\ pc = "dropped"
    /\ written = accepted
    /\ written[<<Name_slash, CSV_EXTENSION>>] = Txt_there
    /\ Delivered(sink_calls, <<Name_slash, CSV_EXTENSION>>)
           = <<32, 116, 104, 101, 114, 101>>
    /\ BufferOf(open_files, <<Name_slash, CSV_EXTENSION>>) = NoBytes

(***************************************************************************)
(* A write of no bytes.                                                    *)
(***************************************************************************)
\* C37: outside local mode write_string of the empty string, to a stream
\* that exists or to one never seen, returns Ok and leaves the writer and
\* the world as they were: no entry is created, last_file_key keeps its
\* value, no file is opened and no sink is called.
C37_EmptyWriteChangesNothing ==
    (pc = "live" /\ ~local_mode) =>
        \A key \in ProbeKeys :
            /\ write_string(Self(0), key[1], key[2], NoBytes) = Self(0)
            /\ write_string(Self(1), key[1], key[2], NoBytes) = Self(1)

\* The writer holds "hi" for the stream "a/b", which it used last; an empty
\* write to the stream "a-b", which has no entry, leaves it so, while the
\* write of a line feed to it would create the entry.
C37_Witness ==
    /\ pc = "live" /\ ~local_mode /\ write_to_disk /\ custom_write_fn
    /\ DOMAIN open_files = {<<Name_slash, CSV_EXTENSION>>}
    /\ last_file_key = Some(<<Name_slash, CSV_EXTENSION>>)
    /\ BufferOf(open_files, <<Name_slash, CSV_EXTENSION>>) = Txt_hi
    /\ write_string(Self(0), Name_hyphen, CSV_EXTENSION, NoBytes).open_files
           = open_files
    /\ write_string(Self(0), Name_hyphen, CSV_EXTENSION, NoBytes).last_file_key
           = last_file_key
    /\ write_string(Self(0), Name_hyphen, CSV_EXTENSION, NoBytes).n_open = 0
    /\ <<Name_hyphen, CSV_EXTENSION>>
           \in DOMAIN write_char(Self(0), Name_hyphen, CSV_EXTENSION, LF)
                          .open_files

(***************************************************************************)
(* What feeds the pending line.                                            *)
(***************************************************************************)
\* The write of text to whatever stream that ended in s added the text to
\* the one pending line.
JoinsLine(s, text) ==
    Ok(s) => s.custom_line_buffer = custom_line_buffer \o text

\* C38: there is one pending line for all streams; write_string, write_char
\* and write_double add their text to it outside local mode when a
\* line-sink is registered, whatever stream they address; write_csv_record
\* leaves it as it is and calls no line-sink; without a line-sink it is
\* empty in every state.
C38_PendingLineFedByTextWrites ==
    /\ ~custom_line_fn => custom_line_buffer = NoBytes
    /\ (custom_line_fn /\ Returned) => custom_line_buffer = line_written
    /\ (pc = "live") =>
        /\ \A a \in RecordWrites :
               /\ write_csv_record(Self(0), a[1], a[2]).custom_line_buffer
                      = custom_line_buffer
               /\ write_csv_record(Self(0), a[1], a[2]).line_out = line_out
               /\ write_csv_record(Self(0), a[1], a[2]).n_line = 0
        /\ (custom_line_fn /\ ~local_mode) =>
            /\ \A a \in StringWrites :
                   JoinsLine(write_string(Self(0), a[1], a[2], a[3]), a[3])
            /\ \A a \in CharWrites :
                   JoinsLine(write_char(Self(0), a[1], a[2], a[3]),
                             encode_utf8(a[3]))
            /\ \A a \in DoubleWrites :
                   JoinsLine(write_double(Self(0), a[1], a[2], a[3]),
                             FormatDouble(a[3]))

\* With a line-sink registered, a record and the text "hi" have been
\* written to two streams: the record is in its stream and the pending
\* line holds "hi" alone.
C38_Witness ==
    /\ custom_line_fn /\ pc = "live" /\ ~local_mode /\ nwrites = 2
    /\ custom_line_buffer = Txt_hi
    /\ <<Name_slash, trim_start_matches(CSV_EXTENSION, Dot)>>
           \in DOMAIN written
    /\ written[<<Name_hyphen, CSV_EXTENSION>>] = Txt_hi

(***************************************************************************)
(* The writer without a destination.                                       *)
(***************************************************************************)
\* Neither a file nor a byte-sink receives what the writer flushes.
NoDestination == ~write_to_disk /\ ~custom_write_fn

\* The operation that ended in s made no call that can fail, returned no
\* error, and handed no byte to a byte-sink, a file or the file system.
SucceedsInSilence(s) ==
    /\ s.io = 0 /\ s.err = NoErr
    /\ s.n_sink = 0 /\ s.n_file = 0 /\ s.n_open = 0
    /\ s.sink_calls = EmptyMap /\ s.file_calls = EmptyMap
    /\ s.disk = EmptyMap /\ s.next_fd = 0

\* The buffer of the stream is the end of what was written to it: what a
\* flush took out of it is in no other place.
HoldsTheEnd(buffer, bytes) ==
    /\ Len(buffer) <= Len(bytes)
    /\ buffer = SubSeq(bytes, Len(bytes) - Len(buffer) + 1, Len(bytes))

Agree(r, f) ==
    /\ ~r.panicked /\ ~f.panicked
    /\ f.s = r.s
    /\ f.info.ascii28 = r.ascii28
    /\ ~f.placeholder /\ f.s # InvalidIsoData

\* C40: for every byte sequence the decoder of encoding/mod.rs, which runs
\* the table's automaton, and the decoder of fec/mod.rs, which asks
\* std::str::from_utf8, return the same text and the same separator flag,
\* and the decoder of fec/mod.rs never replaces its conversion by the
\* placeholder "<invalid iso_8859_1 data>".  (Every line of up to
\* MaxLineLen bytes of LineBytes is decoded; every byte value 0..255 is
\* tried before and after each line of at most one byte.)
C40_DecodersAgree ==
    /\ decoded_line # None =>
           Agree(Unwrap(decoded_line), fec_decode_line(raw_line))
    /\ Len(raw_line) <= 1 =>
           \A b \in 0..255 :
               /\ Agree(decode_line(raw_line \o <<b>>),
                        fec_decode_line(raw_line \o <<b>>))
               /\ Agree(decode_line(<<b>> \o raw_line),
                        fec_decode_line(<<b>> \o raw_line))

\* The line 0xE1 0x1C (a lead byte followed by the separator) is not
\* UTF-8 for the automaton and not for from_utf8: both decoders convert it
\* to C3 A1 1C and report the separator.
C40_Witness ==
    /\ raw_line = <<225, 28>> /\ decoded_line # None
    /\ ~collect_line_info(raw_line).valid_utf8
    /\ ~fec_collect_line_info(raw_line).valid_utf8
    /\ Unwrap(decoded_line).s = <<195, 161, 28>>
    /\ fec_decode_line(raw_line).s = <<195, 161, 28>>
    /\ Unwrap(decoded_line).ascii28 /\ fec_decode_line(raw_line).info.ascii28

====
